---- MODULE Spec2Model ----
(***************************************************************************)
(* Model of the analysis engine of auto_insur2me:                          *)
(*   - MetricCalculator (aggregateByDimensions, calculateMetrics)          *)
(*   - MemoryCache (set, get, clear, getStats)                             *)
(* Each component has its own specification (SpecAggregator, SpecMetrics,  *)
(* SpecCache); the variables of the other components stay at their idle    *)
(* values.                                                                 *)
(***************************************************************************)
EXTENDS Integers, Sequences, FiniteSets, TLC

VARIABLES
    \* MetricCalculator.aggregateByDimensions
    data,            \* the InsuranceRecord[] passed in
    groupByFields,   \* the grouping fields passed in
    groups,          \* the Map<string, InsuranceRecord[]> built by the forEach
    aggregated,      \* the AggregatedData[] returned
    aggPc,           \* "input" before the call, "done" after it
    \* MetricCalculator.calculateMetrics
    aggregatedData,  \* the AggregatedData passed in
    metricResult,    \* the MetricCalculationResult returned
    metPc,           \* "input" before the call, "done" after it
    \* MemoryCache
    cache,           \* Map<string, CacheEntry>, in the Map's iteration order
    totalSize,       \* the running byte counter
    config,          \* CacheConfig
    now,             \* Date.now()
    lastOp,          \* the last cache operation and what it returned
    nOps,            \* number of cache operations so far
    \* InsuranceDatabase
    stored,          \* the records getStoredData() returns
    database,        \* the cache Map of the instance and the objects it refers to
    dbConfig,        \* DatabaseConfig
    lastCall,        \* the last method called and what it returned
    nCalls,          \* number of method calls so far
    \* lib/data-processor and lib/calculations, called on their own
    input,           \* the record list passed in
    output,          \* the function called, its arguments and what it returned
    \* DataService
    service,         \* the cache Map of the singleton
    loading,         \* the calls waiting for the timer of loadDataByYearWeek
    replies          \* the calls that have returned, in the order they did

aggVars == <<data, groupByFields, groups, aggregated, aggPc>>
metVars == <<aggregatedData, metricResult, metPc>>
cacheVars == <<cache, totalSize, config, now, lastOp, nOps>>
dbVars == <<stored, database, dbConfig, lastCall, nCalls>>
procVars == <<input, output>>
svcVars == <<service, loading, replies>>
vars == <<aggVars, metVars, cacheVars, dbVars, procVars, svcVars>>

----------------------------------------------------------------------------
(* JavaScript values: a missing value (undefined / null), a string, a      *)
(* number, a boolean, and the number NaN.  All shapes carry the same       *)
(* fields so that two values of different types compare unequal instead of *)
(* failing.                                                                *)

Missing == [t |-> "missing", s |-> "", n |-> 0, b |-> FALSE]
Str(x) == [t |-> "str", s |-> x, n |-> 0, b |-> FALSE]
Num(x) == [t |-> "num", s |-> "", n |-> x, b |-> FALSE]
Bool(x) == [t |-> "bool", s |-> "", n |-> 0, b |-> x]
NaN == [t |-> "nan", s |-> "", n |-> 0, b |-> FALSE]

\* JavaScript truthiness, as used by `record[field] || 'null'`
Truthy(v) ==
    CASE v.t = "missing" -> FALSE
      [] v.t = "str" -> v.s # ""
      [] v.t = "num" -> v.n # 0
      [] v.t = "bool" -> v.b
      [] v.t = "nan" -> FALSE

\* String conversion of a value inside a template literal
TemplateString(v) ==
    CASE v.t = "missing" -> "undefined"
      [] v.t = "str" -> v.s
      [] v.t = "num" -> ToString(v.n)
      [] v.t = "bool" -> IF v.b THEN "true" ELSE "false"
      [] v.t = "nan" -> "NaN"

\* record[field]: undefined when the record has no such property
Field(record, field) == IF field \in DOMAIN record THEN record[field] ELSE Missing

----------------------------------------------------------------------------
(* Record model *)

DimensionFields ==
    {"third_level_organization", "coverage_type", "is_new_energy_vehicle"}

AbsoluteValueFields ==
    {"signed_premium_yuan", "matured_premium_yuan",
     "commercial_premium_before_discount_yuan", "policy_count",
     "claim_case_count", "reported_claim_payment_yuan", "expense_amount_yuan",
     "matured_margin_contribution_yuan", "variable_cost_amount_yuan"}

\* Bounds of the aggregator's inputs
MaxRecords == 2
MaxGroupFields == 2

\* The values a record of the model takes in each dimension field
OrgValues == {Missing, Str("null"), Str("X"), Str("X|coverage_type:Y")}
CoverageValues == {Str("Z"), Str("Y|coverage_type:Z")}
NewEnergyValues == {Missing, Bool(FALSE), Bool(TRUE)}

MkRecord(org, cov, nev) ==
    [third_level_organization |-> org,
     coverage_type |-> cov,
     is_new_energy_vehicle |-> nev,
     signed_premium_yuan |-> Num(1000),
     matured_premium_yuan |-> Num(900),
     commercial_premium_before_discount_yuan |-> Num(1200),
     policy_count |-> Num(2),
     claim_case_count |-> Num(1),
     reported_claim_payment_yuan |-> Num(300),
     expense_amount_yuan |-> Num(100),
     matured_margin_contribution_yuan |-> Num(200),
     variable_cost_amount_yuan |-> Num(400)]

RecordPool ==
    {MkRecord(o, c, e) : o \in OrgValues, c \in CoverageValues, e \in NewEnergyValues}

SeqsUpTo(S, n) == UNION {[1..k -> S] : k \in 0..n}

\* the lists of grouping fields, no field twice
FieldLists ==
    {s \in SeqsUpTo(DimensionFields, MaxGroupFields) :
        \A i, j \in 1..Len(s) : i # j => s[i] # s[j]}

----------------------------------------------------------------------------
(* MetricCalculator.aggregateByDimensions *)

\* groupByFields.map(field => `${field}:${record[field] || 'null'}`).join('|')
RECURSIVE JoinKey(_, _, _)
JoinKey(record, fields, i) ==
    IF i > Len(fields) THEN ""
    ELSE LET f == fields[i]
             part == f \o ":" \o
                     (IF Truthy(Field(record, f)) THEN TemplateString(Field(record, f))
                      ELSE "null")
         IN  (IF i = 1 THEN "" ELSE "|") \o part \o JoinKey(record, fields, i + 1)

groupKey(record, fields) == JoinKey(record, fields, 1)

\* position of the key in the Map, 0 when the Map does not hold it
KeyIndex(m, key) ==
    IF \E i \in 1..Len(m) : m[i].key = key
    THEN CHOOSE i \in 1..Len(m) : m[i].key = key
    ELSE 0

\* data.forEach(record => { ... groups.get(groupKey)!.push(record) })
\* a group holds the indices (in data) of its records, in input order
RECURSIVE GroupRecords(_, _, _, _)
GroupRecords(d, fields, i, m) ==
    IF i > Len(d) THEN m
    ELSE LET key == groupKey(d[i], fields)
             at == KeyIndex(m, key)
             m1 == IF at = 0 THEN Append(m, [key |-> key, members |-> <<>>]) ELSE m
             at1 == KeyIndex(m1, key)
             m2 == [m1 EXCEPT ![at1].members = Append(@, i)]
         IN  GroupRecords(d, fields, i + 1, m2)

\* safeSum: typeof value === 'number' && !isNaN(value) ? value : 0
RECURSIVE SumOver(_, _, _)
SumOver(groupData, field, i) ==
    IF i > Len(groupData) THEN 0
    ELSE LET value == groupData[i][field]
         IN  (IF value.t = "num" THEN value.n ELSE 0) + SumOver(groupData, field, i + 1)

\* a sum that is lost when one value of the group is not a number
safeSum_Poisoned(groupData, field) ==
    IF \E i \in 1..Len(groupData) : groupData[i][field].t # "num"
    THEN 0
    ELSE SumOver(groupData, field, 1)

safeSum(groupData, field) == SumOver(groupData, field, 1)

aggregateGroup(groupData, dimensionValues) ==
    [dimensions |-> dimensionValues,
     record_count |-> Len(groupData),
     signed_premium_yuan |-> safeSum(groupData, "signed_premium_yuan"),
     matured_premium_yuan |-> safeSum(groupData, "matured_premium_yuan"),
     commercial_premium_before_discount_yuan |->
         safeSum(groupData, "commercial_premium_before_discount_yuan"),
     policy_count |-> safeSum(groupData, "policy_count"),
     claim_case_count |-> safeSum(groupData, "claim_case_count"),
     reported_claim_payment_yuan |-> safeSum(groupData, "reported_claim_payment_yuan"),
     expense_amount_yuan |-> safeSum(groupData, "expense_amount_yuan"),
     matured_margin_contribution_yuan |->
         safeSum(groupData, "matured_margin_contribution_yuan"),
     variable_cost_amount_yuan |-> safeSum(groupData, "variable_cost_amount_yuan")]

\* the records of a group, from their indices
MembersOf(d, g) == [k \in 1..Len(g.members) |-> d[g.members[k]]]

\* dimensionValues[field] = groupData[0][field] for each grouping field;
\* a pair <<field, value>> per grouping field, in the order of groupByFields
DimensionValues(groupData, fields) ==
    [k \in 1..Len(fields) |-> <<fields[k], Field(groupData[1], fields[k])>>]

\* a variant that keeps only the first record of each group
GroupMap_FirstOnly(d, fields) ==
    IF Len(d) = 0 THEN <<>>
    ELSE IF Len(fields) = 0
         THEN <<[key |-> "", members |-> <<1>>]>>
         ELSE LET m == GroupRecords(d, fields, 1, <<>>)
              IN  [g \in 1..Len(m) |-> [key |-> m[g].key, members |-> <<Head(m[g].members)>>]]

\* the Map built by aggregateByDimensions (empty when it returns early; one
\* group holding every record when there is no grouping field)
GroupMap(d, fields) ==
    IF Len(d) = 0 THEN <<>>
    ELSE IF Len(fields) = 0
         THEN <<[key |-> "", members |-> [k \in 1..Len(d) |-> k]]>>
         ELSE GroupRecords(d, fields, 1, <<>>)

aggregateByDimensions(d, fields) ==
    LET m == GroupMap(d, fields)
    IN  [g \in 1..Len(m) |->
            aggregateGroup(MembersOf(d, m[g]),
                           IF Len(fields) = 0 THEN <<>>
                           ELSE DimensionValues(MembersOf(d, m[g]), fields))]

----------------------------------------------------------------------------
(* MetricCalculator.calculateMetrics.  Quotients are exact rationals       *)
(* [n, d] with d > 0; a rounded value keeps its scale as denominator.      *)

Rat(n, d) == IF d < 0 THEN [n |-> -n, d |-> -d] ELSE [n |-> n, d |-> d]
RMul(a, b) == [n |-> a.n * b.n, d |-> a.d * b.d]
RAdd(a, b) == [n |-> a.n * b.d + b.n * a.d, d |-> a.d * b.d]
RSub(a, b) == [n |-> a.n * b.d - b.n * a.d, d |-> a.d * b.d]
RTimes(a, k) == [n |-> a.n * k, d |-> a.d]
RInt(k) == [n |-> k, d |-> 1]
RLess(a, b) == a.n * b.d < b.n * a.d

RECURSIVE Pow10(_)
Pow10(k) == IF k = 0 THEN 1 ELSE 10 * Pow10(k - 1)

\* Math.round: the nearest integer, a tie going up
MathRound(r) == (2 * r.n + r.d) \div (2 * r.d)

\* a rounding that cuts the decimals off instead
roundToDecimal_Truncate(value, decimals) ==
    [n |-> (value.n * Pow10(decimals)) \div value.d, d |-> Pow10(decimals)]

\* a rounding to the whole number, whatever the number of decimals asked for
roundToDecimal_Whole(value, decimals) ==
    [n |-> MathRound(value) * Pow10(decimals), d |-> Pow10(decimals)]

\* Math.round(value * factor) / factor
roundToDecimal(value, decimals) ==
    [n |-> MathRound(RTimes(value, Pow10(decimals))), d |-> Pow10(decimals)]

\* A warning message "<metric>计算：<denominator>为0" is the pair of its two
\* parts; the empty message '' is EmptyMessage.
Message(metric, cause) == [metric |-> metric, cause |-> cause]
EmptyMessage == Message("", "")

\* safeDivide: the quotient, and the warnings array after the call
safeDivide(numerator, denominator, warningMessage, warnings) ==
    IF denominator = 0
    THEN [value |-> RInt(0),
          warnings |-> IF warningMessage # EmptyMessage
                       THEN Append(warnings, warningMessage)
                       ELSE warnings]
    ELSE [value |-> Rat(numerator, denominator), warnings |-> warnings]

\* ANOMALY_THRESHOLDS
ANOMALY_THRESHOLDS ==
    [variable_cost_ratio |-> [min |-> 0, max |-> 150],
     expired_loss_ratio |-> [min |-> 0, max |-> 100],
     expense_ratio |-> [min |-> 0, max |-> 50],
     margin_contribution_ratio |-> [min |-> -50, max |-> 100]]

\* a range test that also rejects the two ends of the range
OutOfRange_EndsExcluded(value, range) ==
    ~RLess(RInt(range.min), value) \/ ~RLess(value, RInt(range.max))

\* value < range.min || value > range.max
OutOfRange(value, range) ==
    RLess(value, RInt(range.min)) \/ RLess(RInt(range.max), value)

\* an anomaly flag `<metric>异常: ${value}%` is the pair of metric and value
Flag(metric, value) == [metric |-> metric, value |-> value]

\* detectAnomalies: the flags pushed, in order
detectAnomalies(result) ==
    (IF OutOfRange(result.variable_cost_ratio_percent, ANOMALY_THRESHOLDS.variable_cost_ratio)
     THEN <<Flag("variable_cost_ratio", result.variable_cost_ratio_percent)>> ELSE <<>>)
    \o
    (IF OutOfRange(result.expired_loss_ratio_percent, ANOMALY_THRESHOLDS.expired_loss_ratio)
     THEN <<Flag("expired_loss_ratio", result.expired_loss_ratio_percent)>> ELSE <<>>)
    \o
    (IF OutOfRange(result.expense_ratio_percent, ANOMALY_THRESHOLDS.expense_ratio)
     THEN <<Flag("expense_ratio", result.expense_ratio_percent)>> ELSE <<>>)
    \o
    (IF OutOfRange(result.matured_margin_contribution_rate_percent,
                   ANOMALY_THRESHOLDS.margin_contribution_ratio)
     THEN <<Flag("margin_contribution_ratio",
                 result.matured_margin_contribution_rate_percent)>> ELSE <<>>)

\* a score that is not clamped
calculateDataQualityScore_Unclamped(result) ==
    100 - Len(result.calculation_warnings) * 10 - Len(result.anomaly_flags) * 15
        - (IF result.signed_premium_yuan = 0 THEN 20 ELSE 0)
        - (IF result.matured_premium_yuan = 0 THEN 15 ELSE 0)
        - (IF result.policy_count = 0 THEN 25 ELSE 0)

calculateDataQualityScore(result) ==
    LET s0 == 100 - Len(result.calculation_warnings) * 10
        s1 == s0 - Len(result.anomaly_flags) * 15
        s2 == IF result.signed_premium_yuan = 0 THEN s1 - 20 ELSE s1
        s3 == IF result.matured_premium_yuan = 0 THEN s2 - 15 ELSE s2
        s4 == IF result.policy_count = 0 THEN s3 - 25 ELSE s3
        Max(a, b) == IF a > b THEN a ELSE b
        Min(a, b) == IF a < b THEN a ELSE b
    IN  Max(0, Min(100, s4))

\* the derived values before rounding, and the warnings, in evaluation order
Unrounded(a) ==
    LET w0 == <<>>
        d1 == safeDivide(a.signed_premium_yuan, a.policy_count,
                         Message("average_premium", "policy_count"), w0)
        d2 == safeDivide(a.reported_claim_payment_yuan, a.claim_case_count,
                         Message("average_claim", "claim_case_count"), d1.warnings)
        d3 == safeDivide(a.expense_amount_yuan, a.signed_premium_yuan,
                         Message("expense_ratio", "signed_premium"), d2.warnings)
        d4 == safeDivide(a.reported_claim_payment_yuan, a.matured_premium_yuan,
                         Message("expired_loss_ratio", "matured_premium"), d3.warnings)
        d5 == safeDivide(a.claim_case_count, a.policy_count,
                         Message("claim_frequency", "policy_count"), d4.warnings)
        d6 == safeDivide(a.matured_premium_yuan, a.signed_premium_yuan,
                         Message("claim_frequency", "signed_premium"), d5.warnings)
        d7 == safeDivide(a.expense_amount_yuan, a.signed_premium_yuan,
                         EmptyMessage, d6.warnings)
        d8 == safeDivide(a.reported_claim_payment_yuan, a.matured_premium_yuan,
                         EmptyMessage, d7.warnings)
        d9 == safeDivide(a.matured_margin_contribution_yuan, a.matured_premium_yuan,
                         Message("margin_contribution_rate", "matured_premium"), d8.warnings)
        d10 == safeDivide(a.signed_premium_yuan, a.commercial_premium_before_discount_yuan,
                          Message("underwriting_factor", "commercial_premium_before_discount"),
                          d9.warnings)
        expense == RTimes(d3.value, 100)
        loss == RTimes(d4.value, 100)
    IN  [average_premium_per_policy_yuan |-> d1.value,
         average_claim_payment_yuan |-> d2.value,
         expense_ratio_percent |-> expense,
         expired_loss_ratio_percent |-> loss,
         claim_frequency_percent |-> RTimes(RMul(d5.value, d6.value), 100),
         variable_cost_ratio_percent |-> RTimes(RAdd(d7.value, d8.value), 100),
         matured_margin_contribution_rate_percent |-> RTimes(d9.value, 100),
         commercial_auto_underwriting_factor |-> d10.value,
         combined_ratio_percent |-> RAdd(expense, loss),
         profit_margin_percent |-> RSub(RInt(100), RAdd(expense, loss)),
         warnings |-> d10.warnings]

\* the result object before detectAnomalies and the quality score
RoundedResult(a) ==
    CHOOSE rounded \in
        {[aggregatedData |-> a,
          signed_premium_yuan |-> a.signed_premium_yuan,
          matured_premium_yuan |-> a.matured_premium_yuan,
          policy_count |-> a.policy_count,
          average_premium_per_policy_yuan |-> MathRound(u.average_premium_per_policy_yuan),
          average_claim_payment_yuan |-> MathRound(u.average_claim_payment_yuan),
          claim_frequency_percent |-> roundToDecimal(u.claim_frequency_percent, 1),
          expired_loss_ratio_percent |-> roundToDecimal(u.expired_loss_ratio_percent, 1),
          expense_ratio_percent |-> roundToDecimal(u.expense_ratio_percent, 1),
          variable_cost_ratio_percent |-> roundToDecimal(u.variable_cost_ratio_percent, 1),
          matured_margin_contribution_rate_percent |->
              roundToDecimal(u.matured_margin_contribution_rate_percent, 1),
          commercial_auto_underwriting_factor |->
              roundToDecimal(u.commercial_auto_underwriting_factor, 4),
          combined_ratio_percent |-> roundToDecimal(u.combined_ratio_percent, 1),
          profit_margin_percent |-> roundToDecimal(u.profit_margin_percent, 1),
          calculation_warnings |-> u.warnings] :
            u \in {Unrounded(a)}} : TRUE

calculateMetrics(a) ==
    CHOOSE result \in
        {[f \in DOMAIN r1 \cup {"data_quality_score"} |->
             IF f = "data_quality_score" THEN calculateDataQualityScore(r1) ELSE r1[f]] :
            r1 \in {[f \in DOMAIN r0 \cup {"anomaly_flags"} |->
                        IF f = "anomaly_flags" THEN detectAnomalies(r0) ELSE r0[f]] :
                     r0 \in {RoundedResult(a)}}} : TRUE

----------------------------------------------------------------------------
(* Text: a JavaScript string as a sequence of runs [c, n] (the character c *)
(* repeated n times), adjacent runs holding different characters, so that  *)
(* equal strings are equal sequences and a string of a megabyte is short.  *)

Run(c, n) == [c |-> c, n |-> n]

TCat(a, b) ==
    IF a = <<>> THEN b
    ELSE IF b = <<>> THEN a
    ELSE IF a[Len(a)].c = b[1].c
         THEN SubSeq(a, 1, Len(a) - 1) \o <<Run(b[1].c, a[Len(a)].n + b[1].n)>> \o Tail(b)
         ELSE a \o b

RECURSIVE Chars(_)
Chars(s) == IF s = <<>> THEN <<>> ELSE TCat(<<Run(Head(s), 1)>>, Chars(Tail(s)))

RECURSIVE TLen(_)
TLen(t) == IF t = <<>> THEN 0 ELSE Head(t).n + TLen(Tail(t))

TDropFirst(t) ==
    IF Head(t).n = 1 THEN Tail(t) ELSE <<Run(Head(t).c, Head(t).n - 1)>> \o Tail(t)

TDropLast(t) ==
    LET k == Len(t)
    IN  IF t[k].n = 1 THEN SubSeq(t, 1, k - 1)
        ELSE SubSeq(t, 1, k - 1) \o <<Run(t[k].c, t[k].n - 1)>>

(* JSON values held by the cache: null, a boolean, a non-negative integer, *)
(* a string (a Text of characters that JSON does not escape).              *)
JNull == [t |-> "null", b |-> FALSE, n |-> 0, s |-> <<>>]
JBool(x) == [t |-> "bool", b |-> x, n |-> 0, s |-> <<>>]
JNum(x) == [t |-> "num", b |-> FALSE, n |-> x, s |-> <<>>]
JStr(x) == [t |-> "str", b |-> FALSE, n |-> 0, s |-> x]

Quote == <<Run("\"", 1)>>

RECURSIVE Digits(_)
Digits(n) ==
    IF n < 10 THEN Chars(<<ToString(n)>>)
    ELSE TCat(Digits(n \div 10), Chars(<<ToString(n % 10)>>))

JSONstringify(v) ==
    CASE v.t = "null" -> Chars(<<"n", "u", "l", "l">>)
      [] v.t = "bool" -> IF v.b THEN Chars(<<"t", "r", "u", "e">>)
                         ELSE Chars(<<"f", "a", "l", "s", "e">>)
      [] v.t = "num" -> Digits(v.n)
      [] v.t = "str" -> TCat(TCat(Quote, v.s), Quote)

DigitOf(c) == CHOOSE d \in 0..9 : ToString(d) = c

RECURSIVE ParseDigits(_)
ParseDigits(t) ==
    IF t = <<>> THEN 0
    ELSE ParseDigits(TDropLast(t)) * 10 + DigitOf(t[Len(t)].c)

JSONparse(t) ==
    CASE Head(t).c = "n" -> JNull
      [] Head(t).c = "t" -> JBool(TRUE)
      [] Head(t).c = "f" -> JBool(FALSE)
      [] Head(t).c = "\"" -> JStr(TDropLast(TDropFirst(t)))
      [] OTHER -> JNum(ParseDigits(t))

----------------------------------------------------------------------------
(* MemoryCache *)

\* Bounds of the cache model
MaxCacheEntries == 3      \* config.maxSize is drawn from 1..MaxCacheEntries
MaxTtl == 1               \* config.ttl is drawn from 1..MaxTtl
MaxTime == 2              \* Date.now() runs over 0..MaxTime
MaxOps == 3               \* number of set / get / clear calls of a run
MaxBurstOps == 4          \* number of calls of a run in which the clock stands still

BytesPerUnit == 1024 * 1024

\* a string whose entry alone is larger than BytesPerUnit bytes
BigLen == (BytesPerUnit \div 2) - 1

Prefixes == {Chars(<<"q">>)}
Params == {JNull, JNum(1), JStr(Chars(<<"a">>))}
Values == {JNum(12), JStr(<<Run("x", BigLen)>>)}

generateKey(prefix, params) == TCat(TCat(prefix, Chars(<<":">>)), JSONstringify(params))

compress(d) == JSONstringify(d)
decompress(compressed) == JSONparse(compressed)
calculateSize(d) == TLen(JSONstringify(d)) * 2

\* cleanup: delete every entry with now - timestamp > ttl
cleanup(c, cfg, time) == SelectSeq(c, LAMBDA e : ~(time - e.timestamp > cfg.ttl))

RECURSIVE SumSizes(_)
SumSizes(c) == IF c = <<>> THEN 0 ELSE Head(c).size + SumSizes(Tail(c))

\* the while loop of makeSpace on the Map c and the counter total
\* a variant whose entry-count test is off by one
RECURSIVE EvictLoop_OffByOne(_, _, _, _)
EvictLoop_OffByOne(c, total, requiredSize, cfg) ==
    IF (Len(c) > cfg.maxSize \/ total + requiredSize > cfg.maxSize * BytesPerUnit)
       /\ c # <<>>
    THEN LET rest == EvictLoop_OffByOne(Tail(c), total - Head(c).size, requiredSize, cfg)
         IN  [rest EXCEPT !.evicted = <<Head(c)>> \o @]
    ELSE [cache |-> c, totalSize |-> total, evicted |-> <<>>]

RECURSIVE EvictLoop(_, _, _, _)
EvictLoop(c, total, requiredSize, cfg) ==
    IF (Len(c) >= cfg.maxSize \/ total + requiredSize > cfg.maxSize * BytesPerUnit)
       /\ c # <<>>
    THEN LET rest == EvictLoop(Tail(c), total - Head(c).size, requiredSize, cfg)
         IN  [rest EXCEPT !.evicted = <<Head(c)>> \o @]
    ELSE [cache |-> c, totalSize |-> total, evicted |-> <<>>]

\* makeSpace: cleanup, then the loop
makeSpace(c, total, requiredSize, cfg, time) ==
    LET live == cleanup(c, cfg, time)
        purged == SelectSeq(c, LAMBDA e : time - e.timestamp > cfg.ttl)
    IN  EvictLoop(live, total - SumSizes(purged), requiredSize, cfg)

EntryIndex(c, key) ==
    IF \E i \in 1..Len(c) : c[i].key = key
    THEN CHOOSE i \in 1..Len(c) : c[i].key = key
    ELSE 0

\* Map.set: a key already present keeps its place in the iteration order
MapSet(c, entry) ==
    LET at == EntryIndex(c, entry.key)
    IN  IF at = 0 THEN Append(c, entry) ELSE [c EXCEPT ![at] = entry]

MapDelete(c, key) == SelectSeq(c, LAMBDA e : e.key # key)

\* set(prefix, params, data): the Map, the counter and the entries evicted
\* (seq is the number of the call that wrote the entry, for the claims)
cacheSet(c, total, cfg, time, prefix, params, d, seq) ==
    LET key == generateKey(prefix, params)
        size == calculateSize(d)
        space == makeSpace(c, total, size, cfg, time)
        entry == [key |-> key,
                  \* data holds a Text when the entry is compressed and a
                  \* value otherwise
                  data |-> IF cfg.enableCompression
                           THEN [text |-> compress(d), value |-> JNull]
                           ELSE [text |-> <<>>, value |-> d],
                  timestamp |-> time,
                  size |-> size,
                  compressed |-> cfg.enableCompression,
                  seq |-> seq]
    IN  [cache |-> MapSet(space.cache, entry),
         totalSize |-> space.totalSize + size,
         evicted |-> space.evicted]

\* what get returns from a live entry
\* a variant that returns entry.data as stored
EntryValue_Raw(entry) == entry.data.value

EntryValue(entry) ==
    IF entry.compressed THEN decompress(entry.data.text) ELSE entry.data.value

\* get(prefix, params): the Map and the counter afterwards, and the value
\* returned (null on both early returns; hit tells them from a stored null)
cacheGet(c, total, cfg, time, prefix, params) ==
    LET key == generateKey(prefix, params)
        at == EntryIndex(c, key)
    IN  IF at = 0
        THEN [cache |-> c, totalSize |-> total, value |-> JNull, hit |-> FALSE]
        ELSE IF time - c[at].timestamp > cfg.ttl
             THEN [cache |-> MapDelete(c, key), totalSize |-> total - c[at].size,
                   value |-> JNull, hit |-> FALSE]
             ELSE [cache |-> c, totalSize |-> total,
                   value |-> EntryValue(c[at]), hit |-> TRUE]

\* getStats
getStats(c, total) == [size |-> Len(c), totalSize |-> total, hitRate |-> 0]

----------------------------------------------------------------------------
(* lib/calculations (calculateFields, groupByAndCalculate) and             *)
(* lib/data-processor (filterData, sortData, paginateData), the functions  *)
(* InsuranceDatabase is built on.  The stored records of the model hold a  *)
(* number in each of the nine absolute-value fields.                       *)

\* the fields of a stored record that hold a time
TimeFields == {"policy_start_year", "week_number"}

calculateFields(record) ==
    LET Quotient(n, d) == IF d > 0 THEN Rat(n, d) ELSE RInt(0)
        sp == record.signed_premium_yuan
        mp == record.matured_premium_yuan
        cp == record.commercial_premium_before_discount_yuan
        pc == record.policy_count
        cc == record.claim_case_count
        rcp == record.reported_claim_payment_yuan
        loss == RTimes(Quotient(rcp, mp), 100)
        expense == RTimes(Quotient(record.expense_amount_yuan, sp), 100)
        combined == RAdd(loss, expense)
    IN  [average_premium_per_policy_yuan |-> Quotient(sp, pc),
         average_claim_payment_yuan |-> Quotient(rcp, cc),
         claim_frequency_percent |-> RTimes(Quotient(cc, pc), 100),
         expired_loss_ratio_percent |-> loss,
         expense_ratio_percent |-> expense,
         variable_cost_ratio_percent |->
             RTimes(Quotient(record.variable_cost_amount_yuan, sp), 100),
         matured_margin_contribution_rate_percent |->
             RTimes(Quotient(record.matured_margin_contribution_yuan, mp), 100),
         commercial_auto_underwriting_factor |-> Quotient(sp, cp),
         combined_ratio_percent |-> combined,
         profit_margin_percent |-> RSub(RInt(100), combined)]

\* records.reduce((acc, record) => ({ field: acc.field + record.field }), zeros)
RECURSIVE aggregateAbsoluteFields(_, _, _)
aggregateAbsoluteFields(records, i, acc) ==
    IF i > Len(records) THEN acc
    ELSE aggregateAbsoluteFields(records, i + 1,
             [f \in AbsoluteValueFields |-> acc[f] + records[i][f].n])

\* { ...aggregatedAbsolute, ...calculatedFields, dimensions, record_count }
calculateAnalysisResult(records, dimensions) ==
    LET aggregatedAbsolute ==
            aggregateAbsoluteFields(records, 1, [f \in AbsoluteValueFields |-> 0])
        calculatedFields == calculateFields(aggregatedAbsolute)
    IN  [f \in AbsoluteValueFields \cup DOMAIN calculatedFields
                \cup {"dimensions", "record_count"} |->
            IF f = "dimensions" THEN dimensions
            ELSE IF f = "record_count" THEN Len(records)
            ELSE IF f \in AbsoluteValueFields THEN aggregatedAbsolute[f]
            ELSE calculatedFields[f]]

\* A string as the sequence of its pieces between and including the
\* separators '|' it holds, so that join('|') and split('|') can be computed.
Tokens(str) ==
    CASE str = "X|coverage_type:Y" -> <<"X", "|", "coverage_type:Y">>
      [] str = "Y|coverage_type:Z" -> <<"Y", "|", "coverage_type:Z">>
      [] OTHER -> <<str>>

\* groupByFields.map(field => String(record[field] ?? 'null')).join('|')
RECURSIVE JoinValues(_, _, _)
JoinValues(record, fields, i) ==
    IF i > Len(fields) THEN <<>>
    ELSE LET value == Field(record, fields[i])
         IN  (IF i = 1 THEN <<>> ELSE <<"|">>)
                 \o Tokens(IF value.t = "missing" THEN "null" ELSE TemplateString(value))
                 \o JoinValues(record, fields, i + 1)

\* groupKey.split('|'): the strings between the separators
RECURSIVE SplitTokens(_, _, _)
SplitTokens(tokens, i, current) ==
    IF i > Len(tokens) THEN <<current>>
    ELSE IF tokens[i] = "|"
         THEN <<current>> \o SplitTokens(tokens, i + 1, "")
         ELSE SplitTokens(tokens, i + 1, current \o tokens[i])

\* Number(value), on the numerals of the numbers the time fields hold
NumberOf(str) ==
    LET numbers == {n \in {1, 2, 2024, 2025} : ToString(n) = str}
    IN  IF str = "" THEN Num(0)
        ELSE IF numbers = {} THEN NaN
        ELSE Num(CHOOSE n \in numbers : TRUE)

\* records.forEach(record => groups.get(groupKey).push(record)), on the
\* keys of groupByAndCalculate
RECURSIVE GroupByKey(_, _, _, _)
GroupByKey(records, fields, i, m) ==
    IF i > Len(records) THEN m
    ELSE LET key == JoinValues(records[i], fields, 1)
             at == KeyIndex(m, key)
             m1 == IF at = 0 THEN Append(m, [key |-> key, members |-> <<>>]) ELSE m
             at1 == KeyIndex(m1, key)
             m2 == [m1 EXCEPT ![at1].members = Append(@, i)]
         IN  GroupByKey(records, fields, i + 1, m2)

groupByAndCalculate(records, fields) ==
    IF Len(fields) = 0 THEN <<calculateAnalysisResult(records, <<>>)>>
    ELSE LET m == GroupByKey(records, fields, 1, <<>>)
             \* the value given to dimensions[field] from its part of the key
             Parse(value, first) ==
                 IF value = "null" THEN Missing
                 ELSE IF first.t \in {"num", "nan"} THEN NumberOf(value)
                 ELSE IF value = "true" THEN Bool(TRUE)
                 ELSE IF value = "false" THEN Bool(FALSE)
                 ELSE Str(value)
         IN  [g \in 1..Len(m) |->
                 LET groupRecords == MembersOf(records, m[g])
                     dimensionValues == SplitTokens(m[g].key, 1, "")
                     dimensions ==
                         [k \in 1..Len(fields) |->
                             <<fields[k],
                               Parse(dimensionValues[k],
                                     Field(groupRecords[1], fields[k]))>>]
                 IN  calculateAnalysisResult(groupRecords, dimensions)]

\* A filter condition: of kind "none" (undefined / null), "value" (a single
\* value) or "array" (the values of a multiple choice)
Condition(kind, value, values) == [kind |-> kind, value |-> value, values |-> values]

\* a filter that keeps a record when some entry matches it, not every entry
filterData_Some(d, filters) ==
    SelectSeq(d, LAMBDA record :
        \E k \in 1..Len(filters) :
            \/ filters[k][2].kind = "none"
            \/ Field(record, filters[k][1]) = filters[k][2].value
            \/ \E j \in 1..Len(filters[k][2].values) :
                   filters[k][2].values[j] = Field(record, filters[k][1]))

\* filters are the entries <<field, condition>> of the object, in order
filterData(d, filters) ==
    LET Matches(record, field, condition) ==
            LET recordValue == Field(record, field)
            IN  CASE condition.kind = "none" -> TRUE
                  [] condition.kind = "array" ->
                         \/ Len(condition.values) = 0
                         \/ \E k \in 1..Len(condition.values) :
                                condition.values[k] = recordValue
                  [] condition.kind = "value" ->
                         recordValue = condition.value /\ recordValue.t # "nan"
    IN  SelectSeq(d, LAMBDA record :
            \A k \in 1..Len(filters) : Matches(record, filters[k][1], filters[k][2]))

\* Array.prototype.sort (stable) on the positions 1..n of a list, cmp[i][j]
\* being the comparator's result on the elements at i and j: position n is
\* inserted after the last of the positions before it that does not follow it
RECURSIVE SortedOrder(_, _)
SortedOrder(n, cmp) ==
    IF n = 0 THEN <<>>
    ELSE LET sorted == SortedOrder(n - 1, cmp)
             before == {k \in 1..Len(sorted) : cmp[sorted[k]][n] <= 0}
             at == IF before = {} THEN 0 ELSE CHOOSE k \in before : \A j \in before : j <= k
         IN  SubSeq(sorted, 1, at) \o <<n>> \o SubSeq(sorted, at + 1, Len(sorted))

StableSort(list, cmp) ==
    LET order == SortedOrder(Len(list), cmp)
    IN  [k \in 1..Len(list) |-> list[order[k]]]

\* the place of a string of the model in the order of localeCompare
LocaleRank(str) ==
    LET collation == <<"1", "2", "2024", "2025", "null", "undefined", "X", "Y">>
        at == {k \in 1..Len(collation) : collation[k] = str}
    IN  IF at = {} THEN 0 ELSE CHOOSE k \in at : TRUE

sortData(d, sortField, sortOrder) ==
    LET Compare(a, b) ==
            LET aValue == Field(a, sortField)
                bValue == Field(b, sortField)
                comparison ==
                    IF aValue.t = "num" /\ bValue.t = "num" THEN aValue.n - bValue.n
                    ELSE LocaleRank(TemplateString(aValue))
                             - LocaleRank(TemplateString(bValue))
            IN  IF aValue = bValue /\ aValue.t # "nan" THEN 0
                ELSE IF sortOrder = "asc" THEN comparison ELSE -comparison
    IN  StableSort(d, [i \in 1..Len(d) |-> [j \in 1..Len(d) |-> Compare(d[i], d[j])]])

\* array.slice(start, end); a negative index counts from the end of the array
Slice(list, start, end) ==
    LET Relative(index) ==
            IF index < 0 THEN (IF Len(list) + index < 0 THEN 0 ELSE Len(list) + index)
            ELSE IF index > Len(list) THEN Len(list) ELSE index
    IN  IF Relative(start) >= Relative(end) THEN <<>>
        ELSE SubSeq(list, Relative(start) + 1, Relative(end))

paginateData(d, page, pageSize) ==
    [data |-> Slice(d, (page - 1) * pageSize, (page - 1) * pageSize + pageSize),
     total |-> Len(d),
     page |-> page,
     pageSize |-> pageSize,
     totalPages |-> (Len(d) + pageSize - 1) \div pageSize]

----------------------------------------------------------------------------
(* InsuranceDatabase.  Its cache maps a key to { data, timestamp }; data is *)
(* a reference to an object, modelled as an index into heap, so that an     *)
(* array held under two keys, or held by the cache and changed by a caller, *)
(* is one array.  A database is the record of its cache and of the heap; a  *)
(* method returns the database it leaves, the reference of the object it    *)
(* returns, and whether the cache answered.                                 *)

\* JSON.stringify of a field value (the strings of the model need no escape)
StringifyValue(v) ==
    CASE v.t = "str" -> "\"" \o v.s \o "\""
      [] v.t = "num" -> ToString(v.n)
      [] v.t = "bool" -> IF v.b THEN "true" ELSE "false"
      [] OTHER -> "null"

\* JSON.stringify of an array of field values
RECURSIVE StringifyArray(_, _)
StringifyArray(values, i) ==
    IF i > Len(values) THEN "]"
    ELSE (IF i = 1 THEN "[" ELSE ",") \o StringifyValue(values[i])
             \o (IF Len(values) = 0 THEN "" ELSE StringifyArray(values, i + 1))

\* JSON.stringify of the filters object from its entry i on; an undefined
\* condition is left out
RECURSIVE StringifyFilters(_, _, _)
StringifyFilters(filters, i, first) ==
    IF i > Len(filters) THEN (IF first THEN "{}" ELSE "}")
    ELSE IF filters[i][2].kind = "none" THEN StringifyFilters(filters, i + 1, first)
    ELSE (IF first THEN "{" ELSE ",")
             \o "\"" \o filters[i][1] \o "\":"
             \o (IF filters[i][2].kind = "array"
                 THEN (IF Len(filters[i][2].values) = 0 THEN "[]"
                       ELSE StringifyArray(filters[i][2].values, 1))
                 ELSE StringifyValue(filters[i][2].value))
             \o StringifyFilters(filters, i + 1, FALSE)

\* `${operation}_${JSON.stringify(params)}`, params already stringified
getCacheKey(operation, params) == operation \o "_" \o params

\* Date.now() - timestamp < this.config.cacheTimeout
isCacheValid(cfg, time, timestamp) == time - timestamp < cfg.cacheTimeout

\* setCache stores the reference under the key
setCache(db, time, key, ref) ==
    [db EXCEPT !.cache = MapSet(@, [key |-> key, data |-> ref, timestamp |-> time])]

\* getCache: the reference held under the key, 0 (null) when there is none
\* or when it is no longer valid
getCache(db, cfg, time, key) ==
    LET at == EntryIndex(db.cache, key)
    IN  IF at # 0 /\ isCacheValid(cfg, time, db.cache[at].timestamp)
        THEN db.cache[at].data
        ELSE 0

\* a method that found nothing in the cache stores the new object under the
\* key and returns it
StoreNew(db, time, key, object) ==
    LET ref == Len(db.heap) + 1
    IN  [db |-> setCache([db EXCEPT !.heap = Append(@, object)], time, key, ref),
         ref |-> ref, hit |-> FALSE]

findAll(db, cfg, time, storedData) ==
    LET cacheKey == getCacheKey("findAll", "{}")
        cached == getCache(db, cfg, time, cacheKey)
    IN  IF cached # 0 THEN [db |-> db, ref |-> cached, hit |-> TRUE]
        ELSE StoreNew(db, time, cacheKey, storedData)

\* sortField is "" when the caller passes none (undefined is left out of the key)
findByConditions(db, cfg, time, storedData, filters, sortField, sortOrder, page, pageSize) ==
    LET cacheKey ==
            getCacheKey("findByConditions",
                "{\"filters\":" \o StringifyFilters(filters, 1, TRUE)
                    \o (IF sortField = "" THEN ""
                        ELSE ",\"sortField\":\"" \o sortField \o "\"")
                    \o ",\"sortOrder\":\"" \o sortOrder \o "\""
                    \o ",\"page\":" \o ToString(page)
                    \o ",\"pageSize\":" \o ToString(pageSize) \o "}")
        cached == getCache(db, cfg, time, cacheKey)
        all == findAll(db, cfg, time, storedData)
        filteredData == filterData(all.db.heap[all.ref], filters)
        sortedData == IF sortField # "" THEN sortData(filteredData, sortField, sortOrder)
                      ELSE filteredData
    IN  IF cached # 0 THEN [db |-> db, ref |-> cached, hit |-> TRUE]
        ELSE StoreNew(all.db, time, cacheKey, paginateData(sortedData, page, pageSize))

\* results.sort((a, b) => b.record_count - a.record_count)
SortByCount(results) ==
    StableSort(results, [i \in 1..Len(results) |-> [j \in 1..Len(results) |->
                            results[j].record_count - results[i].record_count]])

InsuranceDatabase_aggregateByDimensions(db, cfg, time, storedData, dimensions, filters, limit) ==
    LET cacheKey ==
            getCacheKey("aggregateByDimensions",
                "{\"dimensions\":"
                    \o (IF Len(dimensions) = 0 THEN "[]"
                        ELSE StringifyArray([k \in 1..Len(dimensions) |-> Str(dimensions[k])], 1))
                    \o ",\"filters\":" \o StringifyFilters(filters, 1, TRUE)
                    \o ",\"limit\":" \o ToString(limit) \o "}")
        cached == getCache(db, cfg, time, cacheKey)
        all == findAll(db, cfg, time, storedData)
        filteredData == filterData(all.db.heap[all.ref], filters)
        results == groupByAndCalculate(filteredData, dimensions)
        sortedResults == Slice(SortByCount(results), 0, limit)
    IN  IF cached # 0 THEN [db |-> db, ref |-> cached, hit |-> TRUE]
        ELSE StoreNew(all.db, time, cacheKey, sortedResults)

getSummaryStats(db, cfg, time, storedData, filters) ==
    LET cacheKey == getCacheKey("getSummaryStats",
                        "{\"filters\":" \o StringifyFilters(filters, 1, TRUE) \o "}")
        cached == getCache(db, cfg, time, cacheKey)
        all == findAll(db, cfg, time, storedData)
        filteredData == filterData(all.db.heap[all.ref], filters)
    IN  IF cached # 0 THEN [db |-> db, ref |-> cached, hit |-> TRUE]
        ELSE StoreNew(all.db, time, cacheKey, calculateAnalysisResult(filteredData, <<>>))

DefaultLimit == 1000

\* result.sort((a, b) => ...): the sort by time; the time fields hold
\* numbers or nothing
SortByTime(result, groupBy) ==
    LET \* r.dimensions[field] || 0
        DimensionOrZero(r, field) ==
            LET at == {k \in 1..Len(r.dimensions) : r.dimensions[k][1] = field}
                value == IF at = {} THEN Missing ELSE r.dimensions[CHOOSE k \in at : TRUE][2]
            IN  IF value.t = "num" THEN value.n ELSE 0
        Compare(a, b) ==
            LET yearDiff == DimensionOrZero(a, "policy_start_year")
                                - DimensionOrZero(b, "policy_start_year")
                weekDiff == DimensionOrZero(a, "week_number")
                                - DimensionOrZero(b, "week_number")
            IN  IF groupBy = "year" THEN yearDiff
                ELSE IF groupBy = "week" THEN weekDiff
                ELSE IF yearDiff # 0 THEN yearDiff ELSE weekDiff
    IN  StableSort(result, [i \in 1..Len(result) |-> [j \in 1..Len(result) |->
                               Compare(result[i], result[j])]])

\* result.sort(...) sorts the array returned by aggregateByDimensions in
\* place: the object on the heap changes, and it is then also stored under
\* the key of the time series
getTimeSeriesData(db, cfg, time, storedData, groupBy, filters) ==
    LET cacheKey == getCacheKey("getTimeSeriesData",
                        "{\"groupBy\":\"" \o groupBy \o "\",\"filters\":"
                            \o StringifyFilters(filters, 1, TRUE) \o "}")
        cached == getCache(db, cfg, time, cacheKey)
        dimensions == CASE groupBy = "year" -> <<"policy_start_year">>
                        [] groupBy = "week" -> <<"week_number">>
                        [] groupBy = "year_week" -> <<"policy_start_year", "week_number">>
        result == InsuranceDatabase_aggregateByDimensions(
                      db, cfg, time, storedData, dimensions, filters, DefaultLimit)
        db1 == [result.db EXCEPT !.heap[result.ref] = SortByTime(@, groupBy)]
    IN  IF cached # 0 THEN [db |-> db, ref |-> cached, hit |-> TRUE]
        ELSE [db |-> setCache(db1, time, cacheKey, result.ref), ref |-> result.ref,
              hit |-> FALSE]

----------------------------------------------------------------------------
(* Idle values of a component's variables *)

IdleAggregator ==
    /\ data = <<>>
    /\ groupByFields = <<>>
    /\ groups = <<>>
    /\ aggregated = <<>>
    /\ aggPc = "idle"

NoAggregatedData ==
    [dimensions |-> <<>>, record_count |-> 0,
     signed_premium_yuan |-> 0, matured_premium_yuan |-> 0,
     commercial_premium_before_discount_yuan |-> 0, policy_count |-> 0,
     claim_case_count |-> 0, reported_claim_payment_yuan |-> 0,
     expense_amount_yuan |-> 0, matured_margin_contribution_yuan |-> 0,
     variable_cost_amount_yuan |-> 0]

NoMetricResult == calculateMetrics(NoAggregatedData)

IdleMetrics ==
    /\ aggregatedData = NoAggregatedData
    /\ metricResult = NoMetricResult
    /\ metPc = "idle"

NoOp ==
    [op |-> "none", prefix |-> <<>>, params |-> JNull, value |-> JNull,
     hit |-> FALSE, time |-> 0, evicted |-> 0, afterSet |-> FALSE]

IdleCache ==
    /\ cache = <<>>
    /\ totalSize = 0
    /\ config = [maxSize |-> 100, ttl |-> 5 * 60 * 1000, enableCompression |-> TRUE]
    /\ now = 0
    /\ lastOp = NoOp
    /\ nOps = 0

\* failed: the call threw or its promise was rejected (no method of
\* InsuranceDatabase has such a path)
NoCall ==
    [op |-> "none", dimensions |-> <<>>, filters |-> <<>>, limit |-> 0, sort |-> <<>>,
     hit |-> FALSE, failed |-> FALSE, result |-> <<>>]

IdleDatabase ==
    /\ stored = <<>>
    /\ database = [cache |-> <<>>, heap |-> <<>>]
    /\ dbConfig = [useLocalStorage |-> TRUE, maxRecords |-> 100000, cacheTimeout |-> 300000]
    /\ lastCall = NoCall
    /\ nCalls = 0

IdleProcessor ==
    /\ input = <<>>
    /\ output = [fn |-> "none"]

IdleService ==
    /\ service = <<>>
    /\ loading = <<>>
    /\ replies = <<>>

----------------------------------------------------------------------------
(* SpecAggregator: one call of aggregateByDimensions on bounded inputs *)

InitAggregator ==
    /\ data \in SeqsUpTo(RecordPool, MaxRecords)
    /\ groupByFields \in FieldLists
    /\ groups = <<>>
    /\ aggregated = <<>>
    /\ aggPc = "input"
    /\ IdleMetrics
    /\ IdleCache
    /\ IdleDatabase
    /\ IdleProcessor
    /\ IdleService

Aggregate ==
    /\ aggPc = "input"
    /\ groups' = GroupMap(data, groupByFields)
    /\ aggregated' = aggregateByDimensions(data, groupByFields)
    /\ aggPc' = "done"
    /\ UNCHANGED <<data, groupByFields, metVars, cacheVars, dbVars, procVars, svcVars>>

NextAggregator == Aggregate

SpecAggregator == InitAggregator /\ [][NextAggregator]_vars

----------------------------------------------------------------------------
(* SpecSums: one call of aggregateByDimensions on records whose absolute-  *)
(* value fields differ from record to record and may hold no number        *)

SumOrgValues == {Missing, Str("X")}

\* a record of the organization whose field `hole` holds `bad`, which is
\* what an absolute-value field can hold instead of a number; the amounts
\* of the records without organization are three times the others
SumRecord(org, hole, bad) ==
    LET r == MkRecord(org, Str("Z"), Missing)
        k == IF org = Missing THEN 3 ELSE 1
    IN  [f \in DOMAIN r |->
            IF f = hole THEN bad
            ELSE IF f \in AbsoluteValueFields THEN Num(r[f].n * k) ELSE r[f]]

SumRecordPool ==
    {SumRecord(o, "none", Missing) : o \in SumOrgValues}
        \cup {SumRecord(o, h, b) : o \in SumOrgValues, h \in AbsoluteValueFields,
                                   b \in {Missing, NaN, Str("7")}}

SumFieldLists == {<<>>, <<"third_level_organization">>}

InitSums ==
    /\ data \in SeqsUpTo(SumRecordPool, MaxRecords)
    /\ groupByFields \in SumFieldLists
    /\ groups = <<>>
    /\ aggregated = <<>>
    /\ aggPc = "input"
    /\ IdleMetrics
    /\ IdleCache
    /\ IdleDatabase
    /\ IdleProcessor
    /\ IdleService

NextSums == Aggregate

SpecSums == InitSums /\ [][NextSums]_vars

----------------------------------------------------------------------------
(* SpecMetrics: one call of calculateMetrics on a bounded aggregated group *)

MaxAmount == 2

\* premiums at which a percentage has no exact tenth (2/3 = 66.66..%) and at
\* which it lands exactly between two tenths (1/16 = 6.25%)
RoundingAmounts == {3, 16}

Amounts == 0..MaxAmount
PremiumAmounts == Amounts \cup RoundingAmounts
MarginAmounts == (-MaxAmount)..MaxAmount

InitMetrics ==
    /\ \E sp \in PremiumAmounts, mp \in PremiumAmounts, cp \in Amounts, pc \in Amounts,
          cc \in Amounts, rcp \in Amounts, ex \in Amounts, mc \in MarginAmounts :
          aggregatedData =
              [dimensions |-> <<>>, record_count |-> 1,
               signed_premium_yuan |-> sp, matured_premium_yuan |-> mp,
               commercial_premium_before_discount_yuan |-> cp, policy_count |-> pc,
               claim_case_count |-> cc, reported_claim_payment_yuan |-> rcp,
               expense_amount_yuan |-> ex, matured_margin_contribution_yuan |-> mc,
               variable_cost_amount_yuan |-> ex + rcp]
    /\ metricResult = NoMetricResult
    /\ metPc = "input"
    /\ IdleAggregator
    /\ IdleCache
    /\ IdleDatabase
    /\ IdleProcessor
    /\ IdleService

CalculateMetrics ==
    /\ metPc = "input"
    /\ metricResult' = calculateMetrics(aggregatedData)
    /\ metPc' = "done"
    /\ UNCHANGED <<aggregatedData, aggVars, cacheVars, dbVars, procVars, svcVars>>

NextMetrics == CalculateMetrics

SpecMetrics == InitMetrics /\ [][NextMetrics]_vars

----------------------------------------------------------------------------
(* SpecCache: set, get and clear calls on one MemoryCache, and the clock *)

InitCache ==
    /\ cache = <<>>
    /\ totalSize = 0
    /\ config \in [maxSize : 1..MaxCacheEntries, ttl : 1..MaxTtl,
                   enableCompression : BOOLEAN]
    /\ now = 0
    /\ lastOp = NoOp
    /\ nOps = 0
    /\ IdleAggregator
    /\ IdleMetrics
    /\ IdleDatabase
    /\ IdleProcessor
    /\ IdleService

SetStep(limit) ==
    /\ nOps < limit
    /\ \E prefix \in Prefixes, params \in Params, d \in Values :
          LET r == cacheSet(cache, totalSize, config, now, prefix, params, d, nOps + 1)
          IN  /\ cache' = r.cache
              /\ totalSize' = r.totalSize
              /\ lastOp' = [op |-> "set", prefix |-> prefix, params |-> params,
                            value |-> d, hit |-> FALSE, time |-> now,
                            evicted |-> Len(r.evicted), afterSet |-> FALSE]
    /\ nOps' = nOps + 1
    /\ UNCHANGED <<config, now, aggVars, metVars, dbVars, procVars, svcVars>>

GetStep(limit) ==
    /\ nOps < limit
    /\ \E prefix \in Prefixes, params \in Params :
          LET r == cacheGet(cache, totalSize, config, now, prefix, params)
          IN  /\ cache' = r.cache
              /\ totalSize' = r.totalSize
              /\ lastOp' = [op |-> "get", prefix |-> prefix, params |-> params,
                            value |-> r.value, hit |-> r.hit, time |-> now,
                            evicted |-> 0,
                            afterSet |-> /\ lastOp.op = "set"
                                         /\ lastOp.prefix = prefix
                                         /\ lastOp.params = params]
    /\ nOps' = nOps + 1
    /\ UNCHANGED <<config, now, aggVars, metVars, dbVars, procVars, svcVars>>

ClearStep(limit) ==
    /\ nOps < limit
    /\ cache' = <<>>
    /\ totalSize' = 0
    /\ lastOp' = [NoOp EXCEPT !.op = "clear", !.time = now]
    /\ nOps' = nOps + 1
    /\ UNCHANGED <<config, now, aggVars, metVars, dbVars, procVars, svcVars>>

Tick ==
    /\ now < MaxTime
    /\ now' = now + 1
    /\ UNCHANGED <<cache, totalSize, config, lastOp, nOps, aggVars, metVars, dbVars, procVars, svcVars>>

CacheSet == SetStep(MaxOps)
CacheGet == GetStep(MaxOps)
CacheClear == ClearStep(MaxOps)

NextCache == CacheSet \/ CacheGet \/ CacheClear \/ Tick

SpecCache == InitCache /\ [][NextCache]_vars

----------------------------------------------------------------------------
(* SpecCacheBurst: calls on one MemoryCache within one clock tick, so that *)
(* no entry expires                                                        *)

BurstSet == SetStep(MaxBurstOps)
BurstGet == GetStep(MaxBurstOps)
BurstClear == ClearStep(MaxBurstOps)

NextCacheBurst == BurstSet \/ BurstGet \/ BurstClear

SpecCacheBurst == InitCache /\ [][NextCacheBurst]_vars

----------------------------------------------------------------------------
(* SpecDatabase: method calls on the InsuranceDatabase instance db, imports *)
(* of records into the store, and the clock.  A call runs to its end before *)
(* the next one starts.  The store holds the first records of StoredList:   *)
(* a batch or an import adds the next one.                                  *)

MaxCalls == 2             \* number of method calls of a run

\* The records of the store, in the order of the store: their year, week
\* and organization, and the amounts of the record model
StoredList ==
    LET StoredRecord(year, week, org) ==
            LET r == MkRecord(org, Str("Z"), Missing)
            IN  [f \in DOMAIN r \cup TimeFields |->
                    IF f = "policy_start_year" THEN year
                    ELSE IF f = "week_number" THEN week
                    ELSE r[f]]
    IN  <<StoredRecord(Num(2025), Num(2), Str("X")),
          StoredRecord(Num(2024), Num(2), Str("X")),
          StoredRecord(Num(2025), Num(1), Str("Y"))>>

\* the filters of the calls; unknown_field is a name that is no field of the
\* record model
DbFilters ==
    {<<>>,
     <<<<"third_level_organization", Condition("value", Str("X"), <<>>)>>>>,
     <<<<"unknown_field", Condition("value", Str("X"), <<>>)>>>>}

MaxDbTime == 1            \* Date.now() runs over 0..MaxDbTime

\* the store holds the first records of StoredList; config.cacheTimeout is 1
\* or 2 ticks of the clock
InitDatabase ==
    /\ stored \in {SubSeq(StoredList, 1, k) : k \in 0..Len(StoredList)}
    /\ database = [cache |-> <<>>, heap |-> <<>>]
    /\ dbConfig \in [useLocalStorage : {TRUE}, maxRecords : {100000},
                     cacheTimeout : {1, 2}]
    /\ lastCall = NoCall
    /\ nCalls = 0
    /\ now = 0
    /\ cache = <<>>
    /\ totalSize = 0
    /\ config = [maxSize |-> 100, ttl |-> 5 * 60 * 1000, enableCompression |-> TRUE]
    /\ lastOp = NoOp
    /\ nOps = 0
    /\ IdleAggregator
    /\ IdleMetrics
    /\ IdleProcessor
    /\ IdleService

\* the method has returned: the database it leaves and the record of the call
Return(returned, op, dimensions, filters, limit, sort) ==
    \E r \in {returned} :
        /\ database' = r.db
        /\ lastCall' = [op |-> op, dimensions |-> dimensions, filters |-> filters,
                        limit |-> limit, sort |-> sort, hit |-> r.hit, failed |-> FALSE,
                        result |-> r.db.heap[r.ref]]
        /\ nCalls' = nCalls + 1
        /\ UNCHANGED <<stored, dbConfig, aggVars, metVars, cacheVars, procVars, svcVars>>

FindAll ==
    /\ nCalls < MaxCalls
    /\ Return(findAll(database, dbConfig, now, stored), "findAll", <<>>, <<>>, 0, <<>>)

\* calls with no sort field, and sorted by year in both orders, of pages 1
\* and 2 of size 1
FindByConditions ==
    /\ nCalls < MaxCalls
    /\ \E filters \in DbFilters,
          request \in {<<"", "asc", 1>>, <<"policy_start_year", "desc", 1>>,
                       <<"policy_start_year", "asc", 2>>} :
          Return(findByConditions(database, dbConfig, now, stored, filters, request[1],
                                  request[2], request[3], 1),
                 "findByConditions", <<>>, filters, 0, <<request[1], request[2]>>)

AggregateByDimensions ==
    /\ nCalls < MaxCalls
    /\ \E dimensions \in {<<>>, <<"policy_start_year">>, <<"unknown_field">>},
          filters \in DbFilters, limit \in {1, DefaultLimit} :
          Return(InsuranceDatabase_aggregateByDimensions(database, dbConfig, now, stored,
                                                         dimensions, filters, limit),
                 "aggregateByDimensions", dimensions, filters, limit, <<>>)

GetSummaryStats ==
    /\ nCalls < MaxCalls
    /\ \E filters \in DbFilters :
          Return(getSummaryStats(database, dbConfig, now, stored, filters),
                 "getSummaryStats", <<>>, filters, 0, <<>>)

GetTimeSeriesData ==
    /\ nCalls < MaxCalls
    /\ \E groupBy \in {"year", "week", "year_week"}, filters \in DbFilters :
          Return(getTimeSeriesData(database, dbConfig, now, stored, groupBy, filters),
                 "getTimeSeriesData", <<>>, filters, DefaultLimit, <<>>)

\* insertBatch(records): the store gets the records and clearCache empties
\* the Map, after which nothing refers to the objects of the heap.  (When
\* localStorage.setItem throws, neither the store nor the cache changes.)
InsertBatch ==
    /\ nCalls < MaxCalls
    /\ Len(stored) < Len(StoredList)
    /\ stored' = stored \o <<StoredList[Len(stored) + 1]>>
    /\ database' = [cache |-> <<>>, heap |-> <<>>]
    /\ lastCall' = [NoCall EXCEPT !.op = "insertBatch"]
    /\ UNCHANGED <<dbConfig, nCalls, aggVars, metVars, cacheVars, procVars, svcVars>>

Truncate ==
    /\ nCalls < MaxCalls
    /\ stored' = <<>>
    /\ database' = [cache |-> <<>>, heap |-> <<>>]
    /\ lastCall' = [NoCall EXCEPT !.op = "truncate"]
    /\ UNCHANGED <<dbConfig, nCalls, aggVars, metVars, cacheVars, procVars, svcVars>>

\* importCSVData of a file with one valid row: storeDataLocally appends the
\* record to the store; the import has no reference to db
ImportCSVData ==
    /\ nCalls < MaxCalls
    /\ Len(stored) < Len(StoredList)
    /\ stored' = stored \o <<StoredList[Len(stored) + 1]>>
    /\ lastCall' = [NoCall EXCEPT !.op = "importCSVData"]
    /\ UNCHANGED <<database, dbConfig, nCalls, aggVars, metVars, cacheVars, procVars, svcVars>>

DbTick ==
    /\ now < MaxDbTime
    /\ now' = now + 1
    /\ UNCHANGED <<cache, totalSize, config, lastOp, nOps, aggVars, metVars, dbVars, procVars, svcVars>>

NextDatabase ==
    FindAll \/ FindByConditions \/ AggregateByDimensions \/ GetSummaryStats
        \/ GetTimeSeriesData \/ InsertBatch \/ Truncate \/ ImportCSVData \/ DbTick

SpecDatabase == InitDatabase /\ [][NextDatabase]_vars

----------------------------------------------------------------------------
(* SpecProcessor: one call of filterData, of paginateData or of            *)
(* groupByAndCalculate on a bounded record list                            *)

MaxInput == 3             \* the longest record list passed in
MaxPage == 4              \* the page numbers passed in are -1..MaxPage

\* The records are those an import can store: a string or nothing in the
\* organization (among the strings "true" and "null"), a number in the year,
\* numbers in the absolute-value fields
InitProcessor ==
    /\ input \in SeqsUpTo(
           {[f \in DOMAIN MkRecord(Missing, Missing, Missing) \cup {"policy_start_year"} |->
                IF f = "policy_start_year" THEN year
                ELSE MkRecord(org, Str("Z"), Bool(FALSE))[f]] :
                org \in {Missing, Str("X"), Str("true"), Str("null")},
                year \in {Num(2024), Num(2025)}},
           MaxInput)
    /\ output = [fn |-> "none"]
    /\ IdleAggregator
    /\ IdleMetrics
    /\ IdleCache
    /\ IdleDatabase
    /\ IdleService

\* filters on no field, on one field and on two, with every kind of condition
FilterData ==
    /\ output.fn = "none"
    /\ \E org \in {Condition("none", Missing, <<>>),
                   Condition("value", Str("X"), <<>>),
                   Condition("array", Missing, <<Str("X"), Str("true")>>),
                   Condition("array", Missing, <<>>)},
          year \in {Condition("none", Missing, <<>>),
                    Condition("value", Num(2024), <<>>),
                    Condition("array", Missing, <<Num(2025)>>)} :
          \E filters \in {<<>>, <<<<"third_level_organization", org>>>>,
                          <<<<"third_level_organization", org>>,
                            <<"policy_start_year", year>>>>} :
              output' = [fn |-> "filterData", filters |-> filters,
                         returned |-> filterData(input, filters)]
    /\ UNCHANGED <<input, aggVars, metVars, cacheVars, dbVars, svcVars>>

PaginateData ==
    /\ output.fn = "none"
    /\ \E page \in (-1)..MaxPage, pageSize \in 1..2 :
          output' = [fn |-> "paginateData", page |-> page, pageSize |-> pageSize,
                     returned |-> paginateData(input, page, pageSize)]
    /\ UNCHANGED <<input, aggVars, metVars, cacheVars, dbVars, svcVars>>

GroupByAndCalculate ==
    /\ output.fn = "none"
    /\ \E fields \in {<<>>, <<"third_level_organization">>, <<"policy_start_year">>,
                      <<"policy_start_year", "third_level_organization">>} :
          output' = [fn |-> "groupByAndCalculate", fields |-> fields,
                     returned |-> groupByAndCalculate(input, fields)]
    /\ UNCHANGED <<input, aggVars, metVars, cacheVars, dbVars, svcVars>>

NextProcessor == FilterData \/ PaginateData \/ GroupByAndCalculate

SpecProcessor == InitProcessor /\ [][NextProcessor]_vars

----------------------------------------------------------------------------
(* SpecService: calls of the DataService singleton.  A call that awaits is *)
(* held in `loading` until it resumes: loadDataByYearWeek that found       *)
(* nothing in the cache resumes when its timer fires, and the timers fire  *)
(* in the order they were set; getMetricsAnalysis whose data was at hand   *)
(* resumes before anything else runs (no call starts while one is ready). *)
(* The wait of a second is short of a tick of the clock, which is a day.   *)

MaxServiceCalls == 2      \* calls of the service in a behaviour
MaxServiceTime == 1       \* Date.now() runs over 0..MaxServiceTime
MaxServiceList == 2       \* the longest record list passed to a calculation

\* CACHE_DURATION (24 hours), in ticks of the clock
CACHE_DURATION == 1

\* getCache: the data under the key when its entry is valid, else the key is
\* deleted and null returned.  (Here and below, x \in {e} gives the value
\* of e the name x.)
DataService_getCache(c, time, key) ==
    CHOOSE cached \in
        {IF at # 0 /\ time - c[at].timestamp < CACHE_DURATION
         THEN [cache |-> c, found |-> TRUE, data |-> c[at].data]
         ELSE [cache |-> MapDelete(c, key), found |-> FALSE, data |-> <<>>] :
            at \in {EntryIndex(c, key)}} : TRUE

\* getCacheKey('load_data', { year, week }): an undefined week is left out
\* by JSON.stringify
LoadKey(year, week) ==
    "load_data_{\"year\":" \o ToString(year.n)
        \o (IF week.t = "missing" THEN "" ELSE ",\"week\":" \o ToString(week.n)) \o "}"

\* generateMockData: every list Math.random() can make it return, with one
\* record for each week in place of the twenty-four and the first two of
\* the nine weeks when no week is given.  The amounts are counted in
\* thousands of yuan, which keeps the exact arithmetic of calculateMetrics
\* within the integers of the checker; the signed premium is the one drawn.
generateMockData(year, week) ==
    LET weeks == IF Truthy(week) THEN <<week>> ELSE <<Num(28), Num(29)>>
        MockRecord(weekNum, premium) ==
            [policy_start_year |-> year,
             week_number |-> weekNum,
             third_level_organization |-> Str("Chengdu"),
             coverage_type |-> Str("compulsory"),
             is_new_energy_vehicle |-> Bool(FALSE),
             signed_premium_yuan |-> Num(premium),
             matured_premium_yuan |-> Num(1),
             commercial_premium_before_discount_yuan |-> Num(2),
             policy_count |-> Num(1),
             claim_case_count |-> Num(1),
             reported_claim_payment_yuan |-> Num(1),
             expense_amount_yuan |-> Num(1),
             matured_margin_contribution_yuan |-> Num(1),
             variable_cost_amount_yuan |-> Num(1)]
    IN  {[k \in 1..Len(weeks) |-> MockRecord(weeks[k], premium[k])] :
            premium \in [1..Len(weeks) -> {1, 2}]}

\* the exception of reading a property of undefined
TypeError == [threw |-> "TypeError"]

\* calculateAllMetrics: aggregated[0] is undefined when the list is empty
calculateAllMetrics(d) ==
    CHOOSE result \in
        {IF Len(aggregated_) = 0 THEN TypeError ELSE calculateMetrics(aggregated_[1]) :
            aggregated_ \in {aggregateByDimensions(d, <<>>)}} : TRUE

\* DataService.calculateGlobalMetrics: the cache it leaves and what it
\* returns or throws; the key holds the length of the list only
calculateGlobalMetrics(c, time, d) ==
    CHOOSE r \in
        {IF cached.found THEN [cache |-> cached.cache, returned |-> cached.data]
         ELSE IF result = TypeError THEN [cache |-> cached.cache, returned |-> TypeError]
         ELSE [cache |-> MapSet(cached.cache, [key |-> cacheKey, data |-> result,
                                               timestamp |-> time]),
               returned |-> result] :
            cacheKey \in {"global_metrics_{\"dataLength\":" \o ToString(Len(d)) \o "}"},
            cached \in {DataService_getCache(c, time,
                            "global_metrics_{\"dataLength\":" \o ToString(Len(d)) \o "}")},
            result \in {calculateAllMetrics(d)}} : TRUE

\* DataService.calculateMetricsByDimensions: dimensions.sort() orders the
\* caller's array by UTF-16 code units, in place, and the function
\* calculateMetricsByDimensions of metricCalculator is called with it
DataService_calculateMetricsByDimensions(c, time, d, dimensions) ==
    LET sorted == SelectSeq(<<"coverage_type", "is_new_energy_vehicle",
                              "third_level_organization">>,
                            LAMBDA f : \E k \in 1..Len(dimensions) : dimensions[k] = f)
        cacheKey == "dimensional_metrics_{\"dataLength\":" \o ToString(Len(d))
                        \o ",\"dimensions\":"
                        \o StringifyArray([k \in 1..Len(sorted) |-> Str(sorted[k])], 1)
                        \o "}"
    IN  CHOOSE r \in
            {IF cached.found THEN [cache |-> cached.cache, returned |-> cached.data]
             ELSE [cache |-> MapSet(cached.cache, [key |-> cacheKey, data |-> results,
                                                   timestamp |-> time]),
                   returned |-> results] :
                cached \in {DataService_getCache(c, time, cacheKey)},
                results \in {[g \in 1..Len(aggregatedGroups) |->
                                 calculateMetrics(aggregatedGroups[g])] :
                             aggregatedGroups \in {aggregateByDimensions(d, sorted)}}} : TRUE

\* getMetricsAnalysis from the point where the data is loaded: applyFilters
\* (an empty array matches no record), then the calculation
getMetricsAnalysis(c, time, loaded, filters, groupByDimensions) ==
    CHOOSE r \in
        {IF Len(groupByDimensions) > 0
         THEN DataService_calculateMetricsByDimensions(c, time, d, groupByDimensions)
         ELSE CHOOSE wrapped \in
                  {[cache |-> globalResult.cache,
                    returned |-> IF globalResult.returned = TypeError THEN TypeError
                                 ELSE <<globalResult.returned>>] :
                      globalResult \in {calculateGlobalMetrics(c, time, d)}} : TRUE :
            d \in {SelectSeq(loaded, LAMBDA record :
                      \A k \in 1..Len(filters) :
                          CASE filters[k][2].kind = "none" -> TRUE
                            [] filters[k][2].kind = "array" ->
                                   \E j \in 1..Len(filters[k][2].values) :
                                       filters[k][2].values[j]
                                           = Field(record, filters[k][1])
                            [] filters[k][2].kind = "value" ->
                                   /\ Field(record, filters[k][1]) = filters[k][2].value
                                   /\ filters[k][2].value.t # "nan")}} : TRUE

InitService ==
    /\ IdleService
    /\ IdleAggregator
    /\ IdleMetrics
    /\ IdleCache
    /\ IdleDatabase
    /\ IdleProcessor

LoadDataByYearWeek ==
    /\ Len(replies) + Len(loading) < MaxServiceCalls
    /\ \A k \in 1..Len(loading) : ~loading[k].ready
    /\ \E year \in {Num(2024), Num(2025)}, week \in {Missing, Num(28)} :
          \E cached \in {DataService_getCache(service, now, LoadKey(year, week))} :
              /\ service' = cached.cache
              /\ IF cached.found
                 THEN /\ replies' = Append(replies,
                             [fn |-> "loadDataByYearWeek", args |-> <<year, week>>,
                              returned |-> cached.data, at |-> now])
                      /\ UNCHANGED loading
                 ELSE /\ loading' = Append(loading,
                             [fn |-> "loadDataByYearWeek", year |-> year, week |-> week,
                              filters |-> <<>>, dimensions |-> <<>>,
                              ready |-> FALSE, data |-> <<>>])
                      /\ UNCHANGED replies
    /\ UNCHANGED <<aggVars, metVars, cacheVars, dbVars, procVars>>

\* the first waiting call resumes.  After the timer the data is generated,
\* stored and returned, to the caller or to the getMetricsAnalysis that awaits
\* it; getMetricsAnalysis goes on to filter and calculate.
Resume ==
    /\ loading # <<>>
    /\ \E call \in {Head(loading)} :
          \E mockData \in IF call.ready THEN {call.data}
                          ELSE generateMockData(call.year, call.week) :
              \E c1 \in {IF call.ready THEN service
                          ELSE MapSet(service, [key |-> LoadKey(call.year, call.week),
                                                data |-> mockData, timestamp |-> now])} :
                  IF call.fn = "loadDataByYearWeek"
                  THEN /\ service' = c1
                       /\ replies' = Append(replies,
                              [fn |-> "loadDataByYearWeek",
                               args |-> <<call.year, call.week>>,
                               returned |-> mockData, at |-> now])
                  ELSE \E r \in {getMetricsAnalysis(c1, now, mockData, call.filters,
                                                    call.dimensions)} :
                           /\ service' = r.cache
                           /\ replies' = Append(replies,
                                  [fn |-> "getMetricsAnalysis",
                                   args |-> <<call.filters, call.dimensions>>,
                                   returned |-> r.returned, at |-> now])
    /\ loading' = Tail(loading)
    /\ UNCHANGED <<aggVars, metVars, cacheVars, dbVars, procVars>>

\* the lists passed in hold records as generateMockData makes them
CalculateGlobalMetrics ==
    /\ Len(replies) + Len(loading) < MaxServiceCalls
    /\ \A k \in 1..Len(loading) : ~loading[k].ready
    /\ \E d \in SeqsUpTo(UNION {{m[1]} : m \in generateMockData(Num(2024), Num(28))},
                         MaxServiceList) :
          \E r \in {calculateGlobalMetrics(service, now, d)} :
              /\ service' = r.cache
              /\ replies' = Append(replies,
                     [fn |-> "calculateGlobalMetrics", args |-> <<d>>,
                      returned |-> r.returned, at |-> now])
    /\ UNCHANGED <<loading, aggVars, metVars, cacheVars, dbVars, procVars>>

CalculateMetricsByDimensions ==
    /\ Len(replies) + Len(loading) < MaxServiceCalls
    /\ \A k \in 1..Len(loading) : ~loading[k].ready
    /\ \E d \in SeqsUpTo(UNION {{m[1]} : m \in generateMockData(Num(2024), Num(28))},
                         MaxServiceList),
          dimensions \in {<<"coverage_type">>,
                          <<"third_level_organization", "coverage_type">>} :
          \E r \in {DataService_calculateMetricsByDimensions(service, now, d,
                                                             dimensions)} :
              /\ service' = r.cache
              /\ replies' = Append(replies,
                     [fn |-> "calculateMetricsByDimensions",
                      args |-> <<d, dimensions>>,
                      returned |-> r.returned, at |-> now])
    /\ UNCHANGED <<loading, aggVars, metVars, cacheVars, dbVars, procVars>>

\* getMetricsAnalysis up to its await, with no year (getAvailableYears, then
\* the latest year), one year or no year at all in the filter, and with it a
\* filter on the organization that no record meets
GetMetricsAnalysis ==
    /\ Len(replies) + Len(loading) < MaxServiceCalls
    /\ \A k \in 1..Len(loading) : ~loading[k].ready
    /\ \E policy_start_year \in {Condition("none", Missing, <<>>),
                                 Condition("value", Num(2024), <<>>),
                                 Condition("array", Missing, <<>>)},
          organization \in {Condition("none", Missing, <<>>),
                            Condition("value", Str("Deyang"), <<>>)},
          groupByDimensions \in {<<>>, <<"coverage_type">>} :
          \E years \in {DataService_getCache(service, now, "available_years_")},
             year \in {IF policy_start_year.kind = "none" THEN Num(2025)
                       ELSE policy_start_year.value} :
              \E c0 \in {IF policy_start_year.kind # "none" THEN service
                         ELSE IF years.found THEN years.cache
                         ELSE MapSet(years.cache,
                                     [key |-> "available_years_",
                                      data |-> [years |-> <<2024, 2025>>,
                                                lastUpdated |-> now],
                                      timestamp |-> now])} :
                  \E cached \in {IF policy_start_year.kind = "array"
                                  THEN [cache |-> c0, found |-> TRUE, data |-> <<>>]
                                  ELSE DataService_getCache(c0, now,
                                                            LoadKey(year, Missing))} :
                      /\ service' = cached.cache
                      /\ \E call \in {[fn |-> "getMetricsAnalysis", year |-> year,
                                        week |-> Missing,
                                        filters |->
                                            <<<<"policy_start_year", policy_start_year>>,
                                              <<"third_level_organization",
                                                organization>>>>,
                                        dimensions |-> groupByDimensions,
                                        ready |-> cached.found, data |-> cached.data]} :
                             loading' = IF cached.found THEN <<call>> \o loading
                                        ELSE Append(loading, call)
    /\ UNCHANGED <<replies, aggVars, metVars, cacheVars, dbVars, procVars>>

ServiceTick ==
    /\ now < MaxServiceTime
    /\ loading = <<>>
    /\ now' = now + 1
    /\ UNCHANGED <<cache, totalSize, config, lastOp, nOps, aggVars, metVars, dbVars,
                   procVars, svcVars>>

NextService ==
    LoadDataByYearWeek \/ Resume \/ CalculateGlobalMetrics
        \/ CalculateMetricsByDimensions \/ GetMetricsAnalysis \/ ServiceTick

SpecService == InitService /\ [][NextService]_vars

----------------------------------------------------------------------------
(* Claims on MetricCalculator.aggregateByDimensions (SpecAggregator) *)

RECURSIVE SumCounts(_)
SumCounts(r) == IF r = <<>> THEN 0 ELSE Head(r).record_count + SumCounts(Tail(r))

\* the places <<group, position>> of the Map at which record i is held
PlacesOf(i) ==
    {p \in {<<g, k>> : g \in 1..Len(groups), k \in 1..MaxRecords + 1} :
        p[2] <= Len(groups[p[1]].members) /\ groups[p[1]].members[p[2]] = i}

\* C1: the record_count values of the groups returned by
\* aggregateByDimensions sum to the number of input records, and every input
\* record is held by exactly one group: none is dropped, none is counted twice.
C1_CountsSumToInput ==
    aggPc = "done" =>
        /\ SumCounts(aggregated) = Len(data)
        /\ Len(aggregated) = Len(groups)
        /\ \A g \in 1..Len(groups) : aggregated[g].record_count = Len(groups[g].members)
        /\ \A i \in 1..Len(data) : Cardinality(PlacesOf(i)) = 1

\* C1 witness: two records grouped by two fields fall into one group of two
C1_Witness ==
    /\ aggPc = "done"
    /\ Len(groupByFields) = 2
    /\ Len(data) = 2
    /\ Len(aggregated) = 1
    /\ aggregated[1].record_count = 2

SameGroup(i, j) ==
    \E g \in 1..Len(groups) :
        /\ \E k \in 1..Len(groups[g].members) : groups[g].members[k] = i
        /\ \E k \in 1..Len(groups[g].members) : groups[g].members[k] = j

EqualProjection(i, j) ==
    \A k \in 1..Len(groupByFields) : data[i][groupByFields[k]] = data[j][groupByFields[k]]

\* C2: two records are in the same group if and only if they have equal
\* values on every grouping field, a missing value being equal only to a
\* missing value in the same field (never to false, 0, '' or 'null'), and no
\* two different projections sharing a key because of '|' or ':' in a value.
C2_SameGroupIffEqualProjection ==
    aggPc = "done" =>
        \A i, j \in 1..Len(data) : SameGroup(i, j) <=> EqualProjection(i, j)

\* the number held by a field of a record, 0 when it holds no number
NumericValue(v) == IF v.t = "num" THEN v.n ELSE 0

\* the sum of the numbers held by the field in the records of data at the
\* indices of the set
RECURSIVE FieldTotal(_, _)
FieldTotal(field, indices) ==
    IF indices = {} THEN 0
    ELSE LET i == CHOOSE x \in indices : TRUE
         IN  NumericValue(data[i][field]) + FieldTotal(field, indices \ {i})

\* C14: for a non-empty record list and an empty grouping-field list,
\* aggregateByDimensions returns exactly one group, with an empty dimension
\* map, whose record_count is the input length and whose nine summed fields
\* are each the sum of that field over all input records.
C14_NoGroupingGivesOneGroup ==
    (aggPc = "done" /\ Len(data) > 0 /\ groupByFields = <<>>) =>
        /\ Len(aggregated) = 1
        /\ aggregated[1].dimensions = <<>>
        /\ aggregated[1].record_count = Len(data)
        /\ \A f \in AbsoluteValueFields :
               aggregated[1][f] = FieldTotal(f, 1..Len(data))

\* C14 witness: two records with different amounts aggregated without a
\* grouping field
C14_Witness ==
    /\ aggPc = "done"
    /\ groupByFields = <<>>
    /\ Len(data) = 2
    /\ Len(aggregated) = 1
    /\ data[1].signed_premium_yuan = Num(1000)
    /\ data[2].signed_premium_yuan = Num(3000)
    /\ aggregated[1].signed_premium_yuan = 4000

\* the indices in data of the records of group g
MemberSet(g) == {groups[g].members[k] : k \in 1..Len(groups[g].members)}

\* C15: a record whose absolute-value field is missing or not a number
\* contributes 0 to the sum of that field in its group, and neither aborts
\* the aggregation nor affects the other fields: every group sum is a number
\* equal to the sum of the numeric values of the field in the members.
C15_NonNumericCountsZero ==
    aggPc = "done" =>
        /\ Len(aggregated) = Len(groups)
        /\ \A g \in 1..Len(aggregated) : \A f \in AbsoluteValueFields :
               /\ aggregated[g][f] \in Int
               /\ aggregated[g][f] = FieldTotal(f, MemberSet(g))

\* C15 witness: a group of two records, one without policy_count and one
\* whose expense_amount_yuan is NaN; each counts in every other sum
C15_Witness ==
    /\ aggPc = "done"
    /\ Len(data) = 2
    /\ Len(aggregated) = 1
    /\ data[1].policy_count = Missing
    /\ data[2].expense_amount_yuan = NaN
    /\ aggregated[1].policy_count = NumericValue(data[2].policy_count)
    /\ aggregated[1].policy_count > 0
    /\ aggregated[1].expense_amount_yuan = NumericValue(data[1].expense_amount_yuan)
    /\ aggregated[1].expense_amount_yuan > 0
    /\ aggregated[1].signed_premium_yuan =
           data[1].signed_premium_yuan.n + data[2].signed_premium_yuan.n

----------------------------------------------------------------------------
(* Claims on MetricCalculator.calculateMetrics (SpecMetrics) *)

Abs(x) == IF x < 0 THEN -x ELSE x

\* k / scale is a multiple of 1 / scale nearest to num / den (den > 0)
Nearest(k, scale, num, den) == 2 * Abs(k * den - scale * num) <= den

\* r is the rounded value k / scale that is nearest to num / den
RoundedTo(r, scale, num, den) == r.d = scale /\ Nearest(r.n, scale, num, den)

AllDenominatorsNonZero(a) ==
    /\ a.policy_count # 0
    /\ a.claim_case_count # 0
    /\ a.signed_premium_yuan # 0
    /\ a.matured_premium_yuan # 0
    /\ a.commercial_premium_before_discount_yuan # 0

\* C3: for a group whose denominators are all non-zero, every derived field
\* is its table formula on the unrounded sums, rounded once: the averages to
\* the nearest integer, the percentages to 1 decimal, the pricing factor to 4
\* decimals; claim frequency is (claims / policies) x (matured / signed) x 100
\* and variable cost ratio is (expense / signed + claim payment / matured) x 100.
C3_RoundedOnce ==
    (metPc = "done" /\ AllDenominatorsNonZero(aggregatedData)) =>
        LET a == aggregatedData
            r == metricResult
            sp == a.signed_premium_yuan
            mp == a.matured_premium_yuan
            cp == a.commercial_premium_before_discount_yuan
            pc == a.policy_count
            cc == a.claim_case_count
            rcp == a.reported_claim_payment_yuan
            ex == a.expense_amount_yuan
            mc == a.matured_margin_contribution_yuan
        IN  /\ Nearest(r.average_premium_per_policy_yuan, 1, sp, pc)
            /\ Nearest(r.average_claim_payment_yuan, 1, rcp, cc)
            /\ RoundedTo(r.expense_ratio_percent, 10, ex * 100, sp)
            /\ RoundedTo(r.expired_loss_ratio_percent, 10, rcp * 100, mp)
            /\ RoundedTo(r.claim_frequency_percent, 10, cc * mp * 100, pc * sp)
            /\ RoundedTo(r.variable_cost_ratio_percent, 10,
                         (ex * mp + rcp * sp) * 100, sp * mp)
            /\ RoundedTo(r.matured_margin_contribution_rate_percent, 10, mc * 100, mp)
            /\ RoundedTo(r.commercial_auto_underwriting_factor, 10000, sp, cp)
            /\ RoundedTo(r.combined_ratio_percent, 10, (ex * mp + rcp * sp) * 100, sp * mp)
            /\ RoundedTo(r.profit_margin_percent, 10,
                         100 * sp * mp - (ex * mp + rcp * sp) * 100, sp * mp)

\* C3 witness: a group with non-zero denominators whose expense ratio 2/3
\* rounds up to 66.7 and whose loss ratio 1/16 = 6.25% rounds to 6.3
C3_Witness ==
    /\ metPc = "done"
    /\ AllDenominatorsNonZero(aggregatedData)
    /\ metricResult.expense_ratio_percent = [n |-> 667, d |-> 10]
    /\ metricResult.expired_loss_ratio_percent = [n |-> 63, d |-> 10]

Warned(metric) ==
    \E k \in 1..Len(metricResult.calculation_warnings) :
        metricResult.calculation_warnings[k].metric = metric

\* a zero denominator gives the field 0 and a warning that names the field
ZeroWithWarning(denominators, value, metric) ==
    (\E d \in denominators : d = 0) => (value = 0 /\ Warned(metric))

\* C4: for every derived quotient field, a zero denominator in its formula
\* gives 0 for the field and a warning naming the field in
\* calculation_warnings.
C4_ZeroDenominatorGivesZeroAndWarning ==
    metPc = "done" =>
        LET a == aggregatedData
            r == metricResult
        IN  /\ ZeroWithWarning({a.policy_count},
                               r.average_premium_per_policy_yuan, "average_premium")
            /\ ZeroWithWarning({a.claim_case_count},
                               r.average_claim_payment_yuan, "average_claim")
            /\ ZeroWithWarning({a.signed_premium_yuan},
                               r.expense_ratio_percent.n, "expense_ratio")
            /\ ZeroWithWarning({a.matured_premium_yuan},
                               r.expired_loss_ratio_percent.n, "expired_loss_ratio")
            /\ ZeroWithWarning({a.policy_count, a.signed_premium_yuan},
                               r.claim_frequency_percent.n, "claim_frequency")
            /\ ZeroWithWarning({a.signed_premium_yuan, a.matured_premium_yuan},
                               r.variable_cost_ratio_percent.n, "variable_cost_ratio")
            /\ ZeroWithWarning({a.matured_premium_yuan},
                               r.matured_margin_contribution_rate_percent.n,
                               "margin_contribution_rate")
            /\ ZeroWithWarning({a.commercial_premium_before_discount_yuan},
                               r.commercial_auto_underwriting_factor.n,
                               "underwriting_factor")

\* the difference, in tenths, between the returned combined ratio and the
\* sum of the returned expense ratio and the returned loss ratio
CombinedGap ==
    metricResult.combined_ratio_percent.n
        - (metricResult.expense_ratio_percent.n + metricResult.expired_loss_ratio_percent.n)

\* C16: the combined_ratio_percent returned by calculateMetrics differs from
\* the sum of the returned expense_ratio_percent and the returned
\* expired_loss_ratio_percent by at most 0.1.
C16_CombinedWithinTenth ==
    metPc = "done" =>
        /\ metricResult.combined_ratio_percent.d = 10
        /\ metricResult.expense_ratio_percent.d = 10
        /\ metricResult.expired_loss_ratio_percent.d = 10
        /\ Abs(CombinedGap) <= 1

\* C16 witness: both ratios are 6.25% and are returned as 6.3, their sum
\* 12.5% is returned as 12.5: the two sides differ by exactly 0.1
C16_Witness ==
    /\ metPc = "done"
    /\ metricResult.expense_ratio_percent = [n |-> 63, d |-> 10]
    /\ metricResult.expired_loss_ratio_percent = [n |-> 63, d |-> 10]
    /\ metricResult.combined_ratio_percent = [n |-> 125, d |-> 10]
    /\ Abs(CombinedGap) = 1

\* C17: the profit_margin_percent returned by calculateMetrics equals 100
\* minus the combined_ratio_percent returned in the same result.
C17_ProfitIsHundredMinusCombined ==
    metPc = "done" =>
        /\ metricResult.profit_margin_percent.d = 10
        /\ metricResult.combined_ratio_percent.d = 10
        /\ metricResult.profit_margin_percent.n
               = 100 * 10 - metricResult.combined_ratio_percent.n

\* the number of anomaly flags of the result that name the metric
FlagCount(metric) ==
    Cardinality({k \in 1..Len(metricResult.anomaly_flags) :
                    metricResult.anomaly_flags[k].metric = metric})

\* the returned value (in tenths) lies outside [min, max]
Outside(value, min, max) == value.n < min * value.d \/ value.n > max * value.d

\* a flag for the metric exactly when its returned value is outside the range
FlaggedIffOutside(metric, value, min, max) ==
    FlagCount(metric) = IF Outside(value, min, max) THEN 1 ELSE 0

ResultFields ==
    {"signed_premium_yuan", "matured_premium_yuan", "policy_count",
     "average_premium_per_policy_yuan", "average_claim_payment_yuan",
     "claim_frequency_percent", "expired_loss_ratio_percent", "expense_ratio_percent",
     "variable_cost_ratio_percent", "matured_margin_contribution_rate_percent",
     "commercial_auto_underwriting_factor", "combined_ratio_percent",
     "profit_margin_percent", "calculation_warnings", "anomaly_flags",
     "data_quality_score"}

\* C18: calculateMetrics appends an anomaly flag for variable cost ratio,
\* loss ratio, expense ratio and margin contribution rate exactly when the
\* derived value of that ratio in the result lies outside [0,150], [0,100],
\* [0,50], [-50,100] respectively, and it returns a complete result whether
\* or not a flag is appended.
C18_FlagIffOutOfRange ==
    metPc = "done" =>
        LET r == metricResult
        IN  /\ FlaggedIffOutside("variable_cost_ratio", r.variable_cost_ratio_percent, 0, 150)
            /\ FlaggedIffOutside("expired_loss_ratio", r.expired_loss_ratio_percent, 0, 100)
            /\ FlaggedIffOutside("expense_ratio", r.expense_ratio_percent, 0, 50)
            /\ FlaggedIffOutside("margin_contribution_ratio",
                                 r.matured_margin_contribution_rate_percent, -50, 100)
            /\ Len(r.anomaly_flags) =
                   FlagCount("variable_cost_ratio") + FlagCount("expired_loss_ratio")
                       + FlagCount("expense_ratio") + FlagCount("margin_contribution_ratio")
            /\ ResultFields \subseteq DOMAIN r
            /\ r.data_quality_score \in 0..100

\* C18 witness: an expense ratio of 66.7% is flagged, a loss ratio of exactly
\* 100% and a margin contribution rate of exactly -50% are not
C18_Witness ==
    /\ metPc = "done"
    /\ metricResult.expense_ratio_percent = [n |-> 667, d |-> 10]
    /\ metricResult.expired_loss_ratio_percent = [n |-> 1000, d |-> 10]
    /\ metricResult.matured_margin_contribution_rate_percent = [n |-> -500, d |-> 10]
    /\ FlagCount("expense_ratio") = 1
    /\ FlagCount("expired_loss_ratio") = 0
    /\ FlagCount("margin_contribution_ratio") = 0

\* the score before it is clamped
RawScore ==
    100 - 10 * Len(metricResult.calculation_warnings)
        - 15 * Len(metricResult.anomaly_flags)
        - (IF aggregatedData.signed_premium_yuan = 0 THEN 20 ELSE 0)
        - (IF aggregatedData.matured_premium_yuan = 0 THEN 15 ELSE 0)
        - (IF aggregatedData.policy_count = 0 THEN 25 ELSE 0)

\* C19: data_quality_score is 100 minus 10 per calculation warning, minus 15
\* per anomaly flag, minus 20 if signed premium is zero, minus 15 if matured
\* premium is zero, minus 25 if policy count is zero, clamped to [0,100].
C19_QualityScore ==
    metPc = "done" =>
        /\ metricResult.data_quality_score =
               (IF RawScore < 0 THEN 0 ELSE IF RawScore > 100 THEN 100 ELSE RawScore)
        /\ metricResult.data_quality_score >= 0
        /\ metricResult.data_quality_score <= 100

\* C19 witness: a group whose penalties exceed 100 scores 0, with warnings
\* and a flag both counted
C19_Witness ==
    /\ metPc = "done"
    /\ RawScore < 0
    /\ Len(metricResult.calculation_warnings) > 0
    /\ Len(metricResult.anomaly_flags) > 0
    /\ metricResult.data_quality_score = 0

\* the number of calculation warnings of the result that name the metric
WarningCount(metric) ==
    Cardinality({k \in 1..Len(metricResult.calculation_warnings) :
                    metricResult.calculation_warnings[k].metric = metric})

\* 1 when one of the denominators of a ratio is zero, 0 otherwise
ZeroDenominator(denominators) == IF \E d \in denominators : d = 0 THEN 1 ELSE 0

\* C20: calculation_warnings holds exactly one warning for each derived ratio
\* whose denominator is zero and none for any other ratio; the number of
\* warnings is the number of ratios with a zero denominator.
C20_OneWarningPerZeroDenominator ==
    metPc = "done" =>
        LET a == aggregatedData
            zAvgPremium == ZeroDenominator({a.policy_count})
            zAvgClaim == ZeroDenominator({a.claim_case_count})
            zExpense == ZeroDenominator({a.signed_premium_yuan})
            zLoss == ZeroDenominator({a.matured_premium_yuan})
            zFrequency == ZeroDenominator({a.policy_count, a.signed_premium_yuan})
            zVariable == ZeroDenominator({a.signed_premium_yuan, a.matured_premium_yuan})
            zMargin == ZeroDenominator({a.matured_premium_yuan})
            zFactor == ZeroDenominator({a.commercial_premium_before_discount_yuan})
        IN  /\ WarningCount("average_premium") = zAvgPremium
            /\ WarningCount("average_claim") = zAvgClaim
            /\ WarningCount("expense_ratio") = zExpense
            /\ WarningCount("expired_loss_ratio") = zLoss
            /\ WarningCount("claim_frequency") = zFrequency
            /\ WarningCount("variable_cost_ratio") = zVariable
            /\ WarningCount("margin_contribution_rate") = zMargin
            /\ WarningCount("underwriting_factor") = zFactor
            /\ Len(metricResult.calculation_warnings) =
                   zAvgPremium + zAvgClaim + zExpense + zLoss + zFrequency
                       + zVariable + zMargin + zFactor


\* the place of a metric in the formula table: average premium, average
\* claim, expense ratio, loss ratio, claim frequency, variable cost ratio,
\* margin rate, pricing factor
FormulaRank(metric) ==
    CASE metric = "average_premium" -> 1
      [] metric = "average_claim" -> 2
      [] metric = "expense_ratio" -> 3
      [] metric = "expired_loss_ratio" -> 4
      [] metric = "claim_frequency" -> 5
      [] metric = "variable_cost_ratio" -> 6
      [] metric \in {"margin_contribution_rate", "margin_contribution_ratio"} -> 7
      [] metric = "underwriting_factor" -> 8

\* the entries of a list of warnings or flags follow the formula table
InFormulaOrder(entries) ==
    \A i, j \in 1..Len(entries) :
        i < j => FormulaRank(entries[i].metric) <= FormulaRank(entries[j].metric)

\* C21: the entries of calculation_warnings and of anomaly_flags appear in
\* the order in which their fields are evaluated in the formula table, and a
\* second call on the same group gives the same lists in the same order.
C21_WarningsAndFlagsInFormulaOrder ==
    metPc = "done" =>
        /\ InFormulaOrder(metricResult.calculation_warnings)
        /\ InFormulaOrder(metricResult.anomaly_flags)
        /\ calculateMetrics(aggregatedData).calculation_warnings
               = metricResult.calculation_warnings
        /\ calculateMetrics(aggregatedData).anomaly_flags = metricResult.anomaly_flags

----------------------------------------------------------------------------
(* Claims on MemoryCache (SpecCache, SpecCacheBurst) *)

\* the step is a call of get / of set
IsGet == lastOp'.op = "get" /\ nOps' = nOps + 1
IsSet == lastOp'.op = "set" /\ nOps' = nOps + 1

\* the place in the Map, before the call, of the key the call is about
CalledAt == EntryIndex(cache, generateKey(lastOp'.prefix, lastOp'.params))

\* C5: a set(op, p, v) followed directly by get(op, p) before the TTL has
\* elapsed returns a value equal to v, from every cache state.
C5_SetThenGetReturnsValue ==
    [][(/\ lastOp.op = "set"
        /\ IsGet
        /\ lastOp'.prefix = lastOp.prefix
        /\ lastOp'.params = lastOp.params
        /\ now - lastOp.time < config.ttl)
       => (lastOp'.hit /\ lastOp'.value = lastOp.value)]_vars

\* C5 witness: a get that directly follows the set of its key into a cache
\* that was full returns the string written
C5_Witness ==
    /\ lastOp.op = "get"
    /\ lastOp.afterSet
    /\ lastOp.hit
    /\ lastOp.value.t = "str"
    /\ config.maxSize = 2
    /\ Len(cache) = 2

\* C6: a get on an entry whose TTL has elapsed returns absent and removes
\* the entry: the entry count of getStats is one lower afterwards and the
\* entry's size is subtracted from totalSize.
C6_GetRemovesExpired ==
    [][(/\ IsGet
        /\ CalledAt # 0
        /\ now - cache[CalledAt].timestamp >= config.ttl)
       => (/\ ~lastOp'.hit
           /\ lastOp'.value = JNull
           /\ getStats(cache', totalSize').size = getStats(cache, totalSize).size - 1
           /\ getStats(cache', totalSize').totalSize
                  = getStats(cache, totalSize).totalSize - cache[CalledAt].size)]_vars

\* C7: an entry is valid only while now - timestamp < ttl: from the instant
\* at which its age equals ttl, get treats it as absent and the purge of
\* expired entries (run by every set) removes it.
C7_ValidOnlyBeforeTtl ==
    [][/\ (IsGet /\ CalledAt # 0 /\ now - cache[CalledAt].timestamp >= config.ttl)
          => (~lastOp'.hit /\ EntryIndex(cache', cache[CalledAt].key) = 0)
       /\ IsSet => \A i \in 1..Len(cache') : now - cache'[i].timestamp < config.ttl]_vars

C9_EvictsLeastRecentlyWritten ==
    [][IsSet =>
          \A i \in 1..Len(cache) :
              EntryIndex(cache', cache[i].key) = 0 =>
                  \A j \in 1..Len(cache') : cache'[j].seq > cache[i].seq]_vars

\* C10: after every set the estimated total byte size of the stored
\* entries is at most maxSize x 1024 x 1024, whatever the size of the value
\* written.
C10_ByteSizeBounded ==
    lastOp.op = "set" => SumSizes(cache) <= config.maxSize * BytesPerUnit

\* an entry whose TTL has elapsed at the time of the step
Expired(e) == now - e.timestamp >= config.ttl

\* the entries stored before the step that are not expired and are not the
\* entry of the key written
LiveOthers ==
    SelectSeq(cache, LAMBDA e : ~Expired(e)
                                   /\ e.key # generateKey(lastOp'.prefix, lastOp'.params))

\* C26: a set removes a non-expired entry only when, after all expired
\* entries have been purged, storing the new entry would otherwise exceed the
\* entry-count bound or the byte-size bound; a set that fits within both
\* bounds, including one that overwrites a key already present, evicts no
\* live entry, and no live entry is evicted while an expired entry is still
\* stored.
C26_EvictsOnlyWhenOverBound ==
    [][IsSet =>
          LET evictedLive ==
                  {i \in 1..Len(LiveOthers) : EntryIndex(cache', LiveOthers[i].key) = 0}
              fits ==
                  /\ Len(LiveOthers) + 1 <= config.maxSize
                  /\ SumSizes(LiveOthers) + calculateSize(lastOp'.value)
                         <= config.maxSize * BytesPerUnit
          IN  /\ fits => evictedLive = {}
              /\ evictedLive # {} => \A j \in 1..Len(cache') :
                                         cache'[j].seq = nOps' \/ ~Expired(cache'[j])]_vars

\* C27: after any sequence of set, get and clear operations, the totalSize
\* reported by getStats equals the sum of the size fields of the entries
\* currently stored, and is 0 when the cache is empty.
C27_TotalSizeIsSumOfSizes ==
    /\ getStats(cache, totalSize).totalSize = SumSizes(cache)
    /\ cache = <<>> => getStats(cache, totalSize).totalSize = 0

----------------------------------------------------------------------------
(* Claims on InsuranceDatabase (SpecDatabase) *)

\* C11: every list returned by InsuranceDatabase.aggregateByDimensions,
\* computed or served from the cache, after any sequence of other calls on
\* the same instance, is ordered by non-increasing record_count and has at
\* most limit elements.
C11_AnalyzeSortedAndTruncated ==
    lastCall.op = "aggregateByDimensions" =>
        /\ Len(lastCall.result) <= lastCall.limit
        /\ \A k \in 1..Len(lastCall.result) - 1 :
               lastCall.result[k].record_count >= lastCall.result[k + 1].record_count

\* the ten derived fields of a result
DerivedFields ==
    {"average_premium_per_policy_yuan", "average_claim_payment_yuan",
     "claim_frequency_percent", "expired_loss_ratio_percent", "expense_ratio_percent",
     "variable_cost_ratio_percent", "matured_margin_contribution_rate_percent",
     "commercial_auto_underwriting_factor", "combined_ratio_percent",
     "profit_margin_percent"}

\* a derived value of calculateMetrics (an integer for the two averages, a
\* rational otherwise) as a rational
AsRational(v) == IF v \in Int THEN RInt(v) ELSE v

\* the two rationals are the same number
SameNumber(a, b) == a.n * b.d = b.n * a.d

\* calculateMetrics on each group of MetricCalculator.aggregateByDimensions
\* over the filtered records, sorted by descending record_count, truncated
CalculatorOnGroups(dimensions, filters, limit) ==
    LET grouped == aggregateByDimensions(filterData(stored, filters), dimensions)
        results == [g \in 1..Len(grouped) |-> calculateMetrics(grouped[g])]
    IN  Slice(SortByCount(results), 0, limit)

\* the result of the facade has the group, the sums and the derived values
\* of the result of the calculator
SameResult(ofFacade, ofCalculator) ==
    /\ ofFacade.record_count = ofCalculator.aggregatedData.record_count
    /\ ofFacade.dimensions = ofCalculator.aggregatedData.dimensions
    /\ \A f \in AbsoluteValueFields : ofFacade[f] = ofCalculator.aggregatedData[f]
    /\ \A f \in DerivedFields : SameNumber(ofFacade[f], AsRational(ofCalculator[f]))

\* C12: for every stored record set, filter, grouping-field list and limit,
\* InsuranceDatabase.aggregateByDimensions returns exactly the results of
\* MetricCalculator.calculateMetrics applied to each group of
\* MetricCalculator.aggregateByDimensions over the filtered records, sorted
\* by descending record_count and truncated to limit: the same groups, the
\* same sums and the same derived values.
C12_AnalyzeIsCalculatorOnGroups ==
    (lastCall.op = "aggregateByDimensions" /\ ~lastCall.hit) =>
        LET expected ==
                CalculatorOnGroups(lastCall.dimensions, lastCall.filters, lastCall.limit)
        IN  /\ Len(lastCall.result) = Len(expected)
            /\ \A k \in 1..Len(expected) : SameResult(lastCall.result[k], expected[k])

\* the fields of the record model
RecordFields == DimensionFields \cup TimeFields \cup AbsoluteValueFields

\* the call names a field that is no field of the record model, as a filter
\* key or as a grouping dimension
NamesUnknownField(call) ==
    \/ \E k \in 1..Len(call.filters) : call.filters[k][1] \notin RecordFields
    \/ \E k \in 1..Len(call.dimensions) : call.dimensions[k] \notin RecordFields

\* C13: a call of findByConditions or aggregateByDimensions that names a
\* field which is no field of the record model, as a filter key or as a
\* grouping dimension, is rejected with a failure; it never returns a normal
\* result.
C13_UnknownFieldRejected ==
    (lastCall.op \in {"findByConditions", "aggregateByDimensions"}
        /\ NamesUnknownField(lastCall)) => lastCall.failed

----------------------------------------------------------------------------
(* Claims on lib/data-processor and lib/calculations (SpecProcessor) *)

\* The positions of the input whose record meets every constraint of the
\* filters of the call.  A condition that is undefined or null gives no
\* constraint; an empty value list gives the constraint that no value meets
\* when emptyListConstrains, and no constraint otherwise.
MeetingFilters(emptyListConstrains) ==
    {i \in 1..Len(input) :
        \A k \in 1..Len(output.filters) :
            LET condition == output.filters[k][2]
                value == Field(input[i], output.filters[k][1])
            IN  CASE condition.kind = "none" -> TRUE
                  [] condition.kind = "value" -> value = condition.value
                  [] condition.kind = "array" ->
                         \/ ~emptyListConstrains /\ Len(condition.values) = 0
                         \/ value \in {condition.values[j] :
                                           j \in 1..Len(condition.values)}}

\* the list returned holds the records at the positions keep, in input order
ReturnsInInputOrder(keep) ==
    /\ Len(output.returned) = Cardinality(keep)
    /\ \A k \in 1..Len(output.returned) :
           output.returned[k]
               = input[CHOOSE i \in keep : Cardinality({j \in keep : j <= i}) = k]

\* C22: filterData keeps a record if and only if, for every field on which
\* the filter gives a constraint, the record's value equals the single filter
\* value or is a member of the filter's value set; a field with no filter
\* (absent, undefined or null) puts no constraint, and the kept records stay
\* in input order.
C22_FilterKeepsExactlyMatching ==
    output.fn = "filterData" => ReturnsInInputOrder(MeetingFilters(TRUE))

\* C22 as amended: an empty value list puts no constraint either.
C22_EmptyListIsNoConstraint ==
    output.fn = "filterData" => ReturnsInInputOrder(MeetingFilters(FALSE))

\* C22 witness: a call with a value list on one field and a single value on
\* another that keeps two of three records
C22_Witness ==
    /\ output.fn = "filterData"
    /\ Len(output.filters) = 2
    /\ output.filters[1][2].kind = "array"
    /\ Len(output.filters[1][2].values) = 2
    /\ output.filters[2][2].kind = "value"
    /\ Len(input) = 3
    /\ Len(output.returned) = 2
    /\ output.returned = <<input[1], input[3]>>

\* the data of pages 1..n of the input, one after the other
RECURSIVE PagesUpTo(_, _)
PagesUpTo(n, pageSize) ==
    IF n = 0 THEN <<>>
    ELSE PagesUpTo(n - 1, pageSize) \o paginateData(input, n, pageSize).data

\* C23: paginateData returns total equal to the list length and totalPages
\* equal to ceil(total / pageSize); every page holds at most pageSize
\* records, a page number outside 1..totalPages holds none, and the data of
\* pages 1..totalPages one after the other is the input list.
C23_PagesPartitionTheList ==
    output.fn = "paginateData" =>
        LET r == output.returned
        IN  /\ r.total = Len(input)
            /\ r.totalPages * output.pageSize >= r.total
            /\ (r.totalPages - 1) * output.pageSize < r.total
            /\ Len(r.data) <= output.pageSize
            /\ output.page \notin 1..r.totalPages => r.data = <<>>
            /\ PagesUpTo(r.totalPages, output.pageSize) = input

\* the positions of the input whose record has, in each grouping field of
\* the call, the value the dimension map of the group gives for it
HavingDimensions(group) ==
    {i \in 1..Len(input) :
        \A k \in 1..Len(output.fields) :
            Field(input[i], output.fields[k]) = group.dimensions[k][2]}

\* C25: for every group returned by groupByAndCalculate, the dimension map
\* has, for each grouping field, the value that every member record of the
\* group has in that field, with the same type (string, number or boolean)
\* and null only when the members' value is missing: the members of a group
\* are the records that have the values of its dimension map.
C25_DimensionsAreMemberValues ==
    output.fn = "groupByAndCalculate" =>
        \A g \in 1..Len(output.returned) :
            /\ Len(output.returned[g].dimensions) = Len(output.fields)
            /\ \A k \in 1..Len(output.fields) :
                   output.returned[g].dimensions[k][1] = output.fields[k]
            /\ Cardinality(HavingDimensions(output.returned[g]))
                   = output.returned[g].record_count

----------------------------------------------------------------------------
(* Claims on the store of InsuranceDatabase (SpecDatabase) *)

\* what the method of the call returns when it is computed from the records,
\* nothing being cached
ComputedFrom(call, storedData) ==
    LET empty == [cache |-> <<>>, heap |-> <<>>]
        r == CASE call.op = "findAll" -> findAll(empty, dbConfig, now, storedData)
               [] call.op = "findByConditions" ->
                      findByConditions(empty, dbConfig, now, storedData, call.filters,
                                       call.sort[1], call.sort[2], call.result.page,
                                       call.result.pageSize)
               [] call.op = "aggregateByDimensions" ->
                      InsuranceDatabase_aggregateByDimensions(
                          empty, dbConfig, now, storedData, call.dimensions, call.filters,
                          call.limit)
               [] call.op = "getSummaryStats" ->
                      getSummaryStats(empty, dbConfig, now, storedData, call.filters)
    IN  r.db.heap[r.ref]

\* C28: after an operation that changes the stored record set (insertBatch,
\* truncate, or a CSV import through importCSVData / storeDataLocally), the
\* next findAll, findByConditions, getSummaryStats or aggregateByDimensions
\* on db is computed from the current stored records, never from a cached
\* result of the earlier record set.
C28_QueriesSeeCurrentStore ==
    [][(/\ lastCall.op \in {"insertBatch", "truncate", "importCSVData"}
        /\ nCalls' = nCalls + 1
        /\ lastCall'.op \in {"findAll", "findByConditions", "getSummaryStats",
                             "aggregateByDimensions"})
       => lastCall'.result = ComputedFrom(lastCall', stored')]_vars

----------------------------------------------------------------------------
(* Claims on DataService (SpecService) *)

\* C24: an analysis over an empty record set returns a result and does not
\* raise: no call of calculateGlobalMetrics or getMetricsAnalysis has thrown,
\* and calculateAllMetrics does not throw on a list passed in, whatever the
\* list, the empty one included.
C24_EmptyAnalysisDoesNotRaise ==
    \A i \in 1..Len(replies) :
        /\ replies[i].fn \in {"calculateGlobalMetrics", "getMetricsAnalysis"}
               => replies[i].returned # TypeError
        /\ replies[i].fn = "calculateGlobalMetrics"
               => calculateAllMetrics(replies[i].args[1]) # TypeError

\* the metrics of the groups of a list, the grouping fields in the order given
MetricsByDimensions(d, dimensions) ==
    LET aggregatedGroups == aggregateByDimensions(d, dimensions)
    IN  [g \in 1..Len(aggregatedGroups) |-> calculateMetrics(aggregatedGroups[g])]

\* C29: calculateGlobalMetrics and calculateMetricsByDimensions return the
\* metrics of the record list passed in that call (for the dimensions, in
\* the order passed or in sorted order), never those of another list.
C29_MetricsOfTheListPassed ==
    \A i \in 1..Len(replies) :
        /\ replies[i].fn = "calculateGlobalMetrics"
               => replies[i].returned = calculateAllMetrics(replies[i].args[1])
        /\ replies[i].fn = "calculateMetricsByDimensions"
               => \E order \in {replies[i].args[2],
                                [k \in 1..Len(replies[i].args[2]) |->
                                    replies[i].args[2][Len(replies[i].args[2]) + 1 - k]]} :
                      replies[i].returned = MetricsByDimensions(replies[i].args[1], order)

\* C30: within the cache lifetime that starts when the first call for a
\* year and week returns, every call of loadDataByYearWeek for that year and
\* week returns the list the first one returned.
C30_SameKeySameRecords ==
    \A i, j \in 1..Len(replies) :
        (/\ i < j
         /\ replies[i].fn = "loadDataByYearWeek"
         /\ replies[j].fn = "loadDataByYearWeek"
         /\ replies[i].args = replies[j].args
         /\ replies[j].at - replies[i].at < CACHE_DURATION)
            => replies[j].returned = replies[i].returned

====
